---- MODULE Spec2Model ----
(***************************************************************************)
(* Verification model of the rag-template frontend: the application       *)
(* bootstrap (setupApp) driving the OIDC session, the access-token         *)
(* accessor used by the API clients' request hooks, and the chat store's   *)
(* scope selection.                                                        *)
(***************************************************************************)
EXTENDS Integers, Sequences, FiniteSets, TLC

VARIABLES
    app,          \* which frontend the tab runs: "admin" or "chat"
    loc,          \* where the browser is: "app" or "idp" (Keycloak login page)
    path,         \* window.location.pathname of the loaded page
    bootPc,       \* position of setupApp in the current page load
    run,          \* what setupApp has done so far in the current page load
    lastRun,      \* the record of the last completed setupApp run
    navBy,        \* who caused the current page load: "user", "app" or "idp"
    trip,         \* progress of a login -> callback -> root round trip
    lastActor,    \* "user" if the last step was a user action, else "auto"
    session,      \* access token of the stored user, NoToken if no user
    expired,      \* whether the stored access token's validity has elapsed
    idpSession,   \* whether the identity provider holds an SSO session
    issued,       \* number of access tokens issued so far
    renewals,     \* number of underlying token renewal calls in flight
    tokCall,      \* per caller: the state of its getAccessToken call
    batch,        \* the callers the last completed renewal resolved, its result
    req,          \* per request slot: the axios request in progress
    clientCfg,    \* the settings the chat API client was constructed from
    tokenAtCreate, \* the session's access token when the API client was created
    scopeCfg,     \* runtime and build-time value of the scope-selector flag
    storage,      \* localStorage under SCOPE_STORAGE_KEY
    claims,       \* the claims the user's access tokens carry
    conversationId,     \* chat store: 0 until initiateConversation has run
    selectedScopeIds,   \* chat store
    availableScopes,    \* chat store: the ids of the scope options
    isAuthenticated,    \* chat store
    isLoading,          \* chat store
    chatHistory,        \* chat store
    upd,          \* per slot: an updateAvailableScopes call in progress
    logoutPc,     \* position of the chat store's logout
    inf,          \* per request slot: a callInference call in progress
    logoutLog,    \* whether a selection was stored when logout was called; ids toggled on since
    prompts,      \* callInference calls made on this page
    refreshes,    \* updateAvailableScopes calls made by components on this page
    call,         \* a function evaluated on its own: its name and arguments
    ret,          \* whether that function has returned, and the value it returned
    prev,         \* the store of the page a reload has replaced
    upload        \* the upload container (DocumentUploadContainer) of the admin page

bootVars == <<app, loc, path, bootPc, run, lastRun, navBy, trip, lastActor>>
authVars == <<session, expired, idpSession, issued>>
callVars == <<renewals, tokCall, batch>>
apiVars == <<req, clientCfg, tokenAtCreate>>
chatEnv == <<scopeCfg, storage, claims>>
storeVars == <<conversationId, selectedScopeIds, availableScopes, isAuthenticated,
               isLoading, chatHistory, upd, logoutPc, inf, logoutLog, prompts, refreshes>>
fnVars == <<call, ret, prev, upload>>
chatVars == <<chatEnv, storeVars, fnVars>>
vars == <<bootVars, authVars, callVars, apiVars, chatVars>>

\* What the bootstrap leaves alone.
pageVars == <<callVars, apiVars, chatVars>>

----------------------------------------------------------------------------
\* Bounds of the model.

\* The identity provider issues at most this many access tokens in a behaviour.
MaxTokens == 3

----------------------------------------------------------------------------
\* Values.

NoToken == 0
Tokens == 1..MaxTokens
Apps == {"admin", "chat"}
CallbackPath == "/callback"
RootPath == "/"
Paths == {RootPath, CallbackPath, "/docs"}

\* The record of one setupApp run: the path it ran on, the user getUser gave
\* it, and which of login, handleCallback, the redirect to root and mount
\* it has performed.
NewRun(p) ==
    [path |-> p, got |-> FALSE, token |-> NoToken, login |-> FALSE,
     callback |-> FALSE, cbOk |-> FALSE, root |-> FALSE, mounted |-> FALSE]

NoRun == [NewRun(RootPath) EXCEPT !.path = "none"]

----------------------------------------------------------------------------
\* authService (shared/auth/auth.service).

\* getUser: the stored user, null (NoToken) if there is none; never throws.
getUser == session

\* The page is (re)loaded at path p: setupApp starts and awaits getUser.
LoadPage(p, by) ==
    /\ loc' = "app"
    /\ path' = p
    /\ navBy' = by
    /\ bootPc' = "getUser"
    /\ run' = NewRun(p)

\* setupApp_branch with the test of the path inverted.
setupApp_branch_pathInverted(user, pathname) ==
    IF user = NoToken
    THEN IF pathname = CallbackPath THEN "login" ELSE "handleCallback"
    ELSE "mount"

\* Which branch setupApp takes once getUser has resolved.
setupApp_branch(user, pathname) ==
    IF user = NoToken
    THEN IF pathname # CallbackPath THEN "login" ELSE "handleCallback"
    ELSE "mount"

\* setupApp_afterCallback staying on the callback path.
setupApp_afterCallback_stay == CallbackPath

\* Where setupApp sends the browser once handleCallback has returned.
setupApp_afterCallback == RootPath

\* setupApp: `const user = await authService.getUser()` resolves and the
\* function runs on to its next await: login(), handleCallback() or
\* router.isReady().
setupApp_getUser ==
    /\ loc = "app"
    /\ bootPc = "getUser"
    /\ LET b == setupApp_branch(getUser, path)
       IN /\ bootPc' = b
          /\ run' = [run EXCEPT !.got = TRUE, !.token = getUser,
                                !.login = (b = "login"),
                                !.callback = (b = "handleCallback")]
    /\ lastActor' = "auto"
    /\ UNCHANGED <<app, loc, path, lastRun, navBy, trip, authVars>>
    /\ UNCHANGED pageVars

\* The round trip advances when a run completes: 1 after a run that started
\* without a user on a non-callback path, 2 after the following run on the
\* callback path whose token exchange succeeded, 3 after the run that follows.
TripAfter(r) ==
    CASE trip = 1 /\ r.path = CallbackPath /\ r.token = NoToken /\ r.cbOk -> 2
      [] trip = 2 -> 3
      [] r.token = NoToken /\ r.path # CallbackPath -> 1
      [] OTHER -> 0

\* authService.login resolves by navigating to the identity provider; the
\* `return` after it ends the run without a mount.
setupApp_login ==
    /\ loc = "app"
    /\ bootPc = "login"
    /\ loc' = "idp"
    /\ bootPc' = "left"
    /\ lastRun' = run
    /\ trip' = TripAfter(run)
    /\ lastActor' = "auto"
    /\ UNCHANGED <<app, path, run, navBy, authVars>>
    /\ UNCHANGED pageVars

\* authService.login cannot reach the identity provider: it returns to
\* setupApp, which returns without mounting.
setupApp_loginFails ==
    /\ loc = "app"
    /\ bootPc = "login"
    /\ bootPc' = "returned"
    /\ lastRun' = run
    /\ trip' = 0
    /\ lastActor' = "auto"
    /\ UNCHANGED <<app, loc, path, run, navBy, authVars>>
    /\ UNCHANGED pageVars

\* setupApp_handleCallback redirecting only after a successful exchange: a
\* failed one ends the run on the callback page.
setupApp_handleCallback_okOnly(ok) ==
    /\ loc = "app"
    /\ bootPc = "handleCallback"
    /\ IF ok
       THEN /\ issued < MaxTokens
            /\ run.path = CallbackPath
            /\ navBy = "idp"
            /\ issued' = issued + 1
            /\ session' = issued + 1
            /\ expired' = FALSE
            /\ lastRun' = [run EXCEPT !.cbOk = TRUE, !.root = TRUE]
            /\ trip' = TripAfter([run EXCEPT !.cbOk = TRUE, !.root = TRUE])
            /\ LoadPage(RootPath, "app")
       ELSE /\ session' = NoToken
            /\ lastRun' = run
            /\ trip' = 0
            /\ bootPc' = "returned"
            /\ UNCHANGED <<issued, expired, loc, path, navBy, run>>
    /\ lastActor' = "auto"
    /\ UNCHANGED <<app, idpSession>>
    /\ UNCHANGED pageVars

\* authService.handleCallback returns (token exchange succeeded: a user with
\* a fresh access token is stored; or failed: no user is stored), then
\* `window.location.href = '/'` reloads the page.
setupApp_handleCallback(ok) ==
    /\ loc = "app"
    /\ bootPc = "handleCallback"
    /\ IF ok
       THEN /\ issued < MaxTokens
            /\ run.path = CallbackPath
            /\ navBy = "idp"
            /\ issued' = issued + 1
            /\ session' = issued + 1
            /\ expired' = FALSE
       ELSE /\ session' = NoToken
            /\ UNCHANGED <<issued, expired>>
    /\ LET r == [run EXCEPT !.cbOk = ok, !.root = (setupApp_afterCallback = RootPath)]
       IN /\ lastRun' = r
          /\ trip' = TripAfter(r)
    /\ LoadPage(setupApp_afterCallback, "app")
    /\ lastActor' = "auto"
    /\ UNCHANGED <<app, idpSession>>
    /\ UNCHANGED pageVars

\* router.isReady resolves and the application is mounted.
setupApp_mount ==
    /\ loc = "app"
    /\ bootPc = "mount"
    /\ bootPc' = "mounted"
    /\ run' = [run EXCEPT !.mounted = TRUE]
    /\ lastRun' = [run EXCEPT !.mounted = TRUE]
    /\ trip' = TripAfter(run)
    /\ lastActor' = "auto"
    /\ UNCHANGED <<app, loc, path, navBy, authVars>>
    /\ UNCHANGED pageVars

----------------------------------------------------------------------------
\* The environment of the bootstrap: the identity provider and the user.

\* The identity provider holds an SSO session and redirects back to the
\* callback path at once.
IdpRedirect ==
    /\ loc = "idp"
    /\ idpSession
    /\ LoadPage(CallbackPath, "idp")
    /\ lastActor' = "auto"
    /\ UNCHANGED <<app, lastRun, trip, authVars>>
    /\ UNCHANGED pageVars

\* The user signs in on the identity provider's login page.
UserSignsIn ==
    /\ loc = "idp"
    /\ ~idpSession
    /\ idpSession' = TRUE
    /\ lastActor' = "user"
    /\ UNCHANGED <<app, loc, path, bootPc, run, lastRun, navBy, trip>>
    /\ UNCHANGED <<session, expired, issued>>
    /\ UNCHANGED pageVars

\* The user opens or reloads the application at path p (address bar, link,
\* reload button); a run of setupApp that was in progress is abandoned.
UserNavigates(p) ==
    /\ LoadPage(p, "user")
    /\ trip' = 0
    /\ lastActor' = "user"
    /\ UNCHANGED <<app, lastRun, authVars>>
    /\ UNCHANGED pageVars

\* authService.logout, called by the user from the mounted application:
\* clears the local session; the identity provider's SSO session ends with
\* it or survives it.
UserLogsOut(keepSso) ==
    /\ loc = "app"
    /\ bootPc = "mounted"
    /\ session # NoToken
    /\ session' = NoToken
    /\ expired' = FALSE
    /\ idpSession' = (idpSession /\ keepSso)
    /\ lastActor' = "user"
    /\ UNCHANGED <<app, loc, path, bootPc, run, lastRun, navBy, trip, issued>>
    /\ UNCHANGED pageVars

\* The access token's validity window elapses.
TokenExpires ==
    /\ session # NoToken
    /\ ~expired
    /\ expired' = TRUE
    /\ UNCHANGED <<bootVars, session, idpSession, issued>>
    /\ UNCHANGED pageVars

----------------------------------------------------------------------------
\* Bounds of the page model.

\* Request slots: the axios requests that can be in progress at once.
MaxRequests == 2

\* updateAvailableScopes calls that can be in progress at once.
MaxUpdates == 2

\* callInference calls made on one page.
MaxPrompts == 1

\* updateAvailableScopes calls components make on one page.
MaxRefreshes == 1

----------------------------------------------------------------------------
\* Strings are sequences of one-character strings.

\* JavaScript's undefined: equal to no string.
Undefined == <<"undefined">>

UpperChars ==
    <<"A", "B", "C", "D", "E", "F", "G", "H", "I", "J", "K", "L", "M",
      "N", "O", "P", "Q", "R", "S", "T", "U", "V", "W", "X", "Y", "Z">>

LowerChars ==
    <<"a", "b", "c", "d", "e", "f", "g", "h", "i", "j", "k", "l", "m",
      "n", "o", "p", "q", "r", "s", "t", "u", "v", "w", "x", "y", "z">>

DigitChars == {"0", "1", "2", "3", "4", "5", "6", "7", "8", "9"}

UpperSet == {UpperChars[i] : i \in DOMAIN UpperChars}

IsUpper(ch) == ch \in UpperSet

\* The lower-case letter of each upper-case letter.
LowerOf ==
    [ch \in UpperSet |->
        LowerChars[CHOOSE k \in DOMAIN UpperChars : UpperChars[k] = ch]]

\* String.prototype.toLowerCase
toLowerCase(str) ==
    [i \in DOMAIN str |-> IF IsUpper(str[i]) THEN LowerOf[str[i]] ELSE str[i]]

\* String(value)
String(value) ==
    IF value = Undefined
    THEN <<"u", "n", "d", "e", "f", "i", "n", "e", "d">>
    ELSE value

VitePrefix == <<"V", "I", "T", "E", "_">>

\* /^VITE_[A-Z0-9_]+$/.test(value)
MatchesPlaceholder(value) ==
    /\ Len(value) > Len(VitePrefix)
    /\ SubSeq(value, 1, Len(VitePrefix)) = VitePrefix
    /\ \A i \in (Len(VitePrefix) + 1)..Len(value) :
           IsUpper(value[i]) \/ value[i] \in DigitChars \/ value[i] = "_"

\* isPlaceholder: !value || /^VITE_[A-Z0-9_]+$/.test(value)
isPlaceholder(value) ==
    value = Undefined \/ value = <<>> \/ MatchesPlaceholder(value)

\* pickValue returning the last candidate that is no placeholder.
pickValue_last(candidates) ==
    IF \E i \in DOMAIN candidates : ~isPlaceholder(candidates[i])
    THEN candidates[CHOOSE i \in DOMAIN candidates :
                        /\ ~isPlaceholder(candidates[i])
                        /\ \A j \in (i + 1)..Len(candidates) :
                               isPlaceholder(candidates[j])]
    ELSE Undefined

\* pickValue: candidates.find((v) => !isPlaceholder(v))
pickValue(candidates) ==
    IF \E i \in DOMAIN candidates : ~isPlaceholder(candidates[i])
    THEN candidates[CHOOSE i \in DOMAIN candidates :
                        /\ ~isPlaceholder(candidates[i])
                        /\ \A j \in 1..(i - 1) : isPlaceholder(candidates[j])]
    ELSE Undefined

S_true == <<"t", "r", "u", "e">>
S_TRUE == <<"T", "R", "U", "E">>
S_True == <<"T", "r", "u", "e">>
S_false == <<"f", "a", "l", "s", "e">>

----------------------------------------------------------------------------
\* authService.getAccessToken and the renewal it shares among its callers.

ReqIds == 1..MaxRequests
UpdIds == 1..MaxUpdates

\* The callers of getAccessToken: the request hooks of the slots, then the
\* updateAvailableScopes calls.
UpdCaller(u) == MaxRequests + u
CallerIds == 1..(MaxRequests + MaxUpdates)

NoCall == [st |-> "none", val |-> NoToken]
NoBatch == [members |-> {}, token |-> NoToken]

\* getAccessToken starting a renewal call of its own whenever the token is
\* expired.
getAccessToken_startsRenewal_always == TRUE

\* An expired token makes getAccessToken start the underlying renewal call
\* only if none is pending; otherwise the caller shares the pending one.
getAccessToken_startsRenewal == renewals = 0

\* Caller c calls getAccessToken: with no session it resolves to undefined,
\* with a valid token to that token; with an expired token the caller joins
\* the shared renewal.
getAccessToken(c) ==
    /\ batch' = [batch EXCEPT !.members = @ \ {c}]
    /\ IF session = NoToken \/ ~expired
       THEN /\ tokCall' = [tokCall EXCEPT ![c] = [st |-> "ready", val |-> session]]
            /\ UNCHANGED renewals
       ELSE /\ tokCall' = [tokCall EXCEPT ![c] = [st |-> "joined", val |-> NoToken]]
            /\ renewals' = IF getAccessToken_startsRenewal
                           THEN renewals + 1
                           ELSE renewals

\* The underlying renewal call completes: a success stores a fresh access
\* token and every caller sharing the renewal resolves to it; after a failure
\* the session stays expired and every one of them resolves to undefined.
RenewalCompletes(ok) ==
    /\ renewals > 0
    /\ ok => (session # NoToken /\ expired /\ issued < MaxTokens)
    /\ renewals' = renewals - 1
    /\ IF ok
       THEN /\ issued' = issued + 1
            /\ session' = issued + 1
            /\ expired' = FALSE
       ELSE UNCHANGED <<issued, session, expired>>
    /\ LET joined == {c \in CallerIds : tokCall[c].st = "joined"}
           result == IF ok THEN issued + 1 ELSE NoToken
       IN /\ tokCall' = [c \in CallerIds |->
                            IF c \in joined
                            THEN [st |-> "ready", val |-> result]
                            ELSE tokCall[c]]
          /\ batch' = [members |-> joined, token |-> result]
    /\ UNCHANGED <<bootVars, idpSession, apiVars>>
    /\ UNCHANGED chatVars

----------------------------------------------------------------------------
\* The API clients (document.api.ts, chat.api.ts).

\* The settings the chat client reads when it is constructed: the runtime
\* config entry (rt) and the build-time value (bt) of the chat-auth flag, the
\* username and the password.
S_user == <<"u", "s", "r">>
S_pass == <<"p", "w">>
P_flag == VitePrefix \o <<"C", "H", "A", "T", "_", "A", "U", "T", "H">>
P_user == VitePrefix \o <<"A", "U", "T", "H", "_", "U", "S", "E", "R">>

ClientSettings ==
    [flagRt : {P_flag, S_True, S_false}, flagBt : {Undefined, S_true},
     userRt : {P_user, S_user}, userBt : {Undefined},
     passRt : {<<>>, S_pass}, passBt : {Undefined}]

\* The settings of a deployment that configures no basic auth.
NoSettings ==
    [flagRt |-> Undefined, flagBt |-> Undefined, userRt |-> Undefined,
     userBt |-> Undefined, passRt |-> Undefined, passBt |-> Undefined]

\* isChatAuthEnabled
isChatAuthEnabled(cfg) ==
    toLowerCase(String(pickValue(<<cfg.flagRt, cfg.flagBt>>))) = S_true

authUsername(cfg) == pickValue(<<cfg.userRt, cfg.userBt>>)
authPassword(cfg) == pickValue(<<cfg.passRt, cfg.passBt>>)

\* A string is truthy unless it is undefined or empty.
Truthy(value) == value # Undefined /\ value # <<>>

\* Whether the chat client's defaults carry basic-auth credentials:
\* `if (isChatAuthEnabled && authUsername && authPassword) defaults.auth = ...`
chatDefaultsAuth(cfg) ==
    isChatAuthEnabled(cfg) /\ Truthy(authUsername(cfg)) /\ Truthy(authPassword(cfg))

\* The request config axios hands to the request hook: the client's defaults.
\* auth: basic-auth credentials are set; bearer: the token of the
\* Authorization header, NoToken if the header is not set; aborted: the hook
\* rejected the request.
defaultConfig(client) ==
    [auth |-> (client = "chat" /\ chatDefaultsAuth(clientCfg)),
     bearer |-> NoToken, aborted |-> FALSE]

IdleReq == [pc |-> "idle", client |-> "admin", config |-> defaultConfig("admin"),
            sends |-> 0]

\* The admin hook attaching the token the session had when the client was
\* created.
adminRequestHook_cached(config, token) ==
    IF tokenAtCreate # NoToken
    THEN [config EXCEPT !.bearer = tokenAtCreate]
    ELSE config

\* document.api.ts request hook, after `await authService.getAccessToken()`.
adminRequestHook(config, token) ==
    IF token # NoToken
    THEN [config EXCEPT !.bearer = token]
    ELSE config

\* The chat hook attaching the bearer header without clearing config.auth.
chatRequestHook_keepsAuth(config, token) ==
    IF token # NoToken
    THEN [config EXCEPT !.bearer = token]
    ELSE config

\* The chat hook rejecting a request for which there is no token.
chatRequestHook_requiresToken(config, token) ==
    IF token # NoToken
    THEN [config EXCEPT !.bearer = token, !.auth = FALSE]
    ELSE [config EXCEPT !.aborted = TRUE]

\* chat.api.ts request hook, after `await authService.getAccessToken()`.
chatRequestHook(config, token) ==
    IF token # NoToken
    THEN [config EXCEPT !.bearer = token, !.auth = FALSE]
    ELSE config

\* The Authorization header axios puts on the wire: basic-auth credentials in
\* config.auth replace a header set by the hook.
Authorization(config) ==
    IF config.auth THEN <<"Basic", NoToken>>
    ELSE IF config.bearer # NoToken THEN <<"Bearer", config.bearer>>
    ELSE <<"none", NoToken>>

\* apiClient.get/post/delete on slot i: axios builds the config from the
\* client's defaults and runs the request hook, which awaits getAccessToken.
apiClient_request(i, client) ==
    /\ req' = [req EXCEPT ![i] = [pc |-> "hook", client |-> client,
                                  config |-> defaultConfig(client), sends |-> 0]]
    /\ getAccessToken(i)

\* A DocumentAPI or ChatAPI method is called and issues its request on the
\* free slot i.
ApiCall(i, client) ==
    /\ req[i].pc = "idle"
    /\ apiClient_request(i, client)
    /\ UNCHANGED <<bootVars, authVars, clientCfg, tokenAtCreate>>
    /\ UNCHANGED chatVars

\* getAccessToken has resolved for the hook of slot i: the hook returns the
\* config and axios sends the request, or the hook rejects and nothing is
\* sent.
HookResumes(i) ==
    /\ req[i].pc = "hook"
    /\ tokCall[i].st = "ready"
    /\ LET token == tokCall[i].val
           config == IF req[i].client = "admin"
                     THEN adminRequestHook(req[i].config, token)
                     ELSE chatRequestHook(req[i].config, token)
       IN req' = [req EXCEPT ![i].config = config,
                             ![i].pc = IF config.aborted THEN "rejected" ELSE "sent",
                             ![i].sends = IF config.aborted THEN @ ELSE @ + 1]
    /\ tokCall' = [tokCall EXCEPT ![i].st = "used"]
    /\ UNCHANGED <<bootVars, authVars, renewals, batch, clientCfg, tokenAtCreate>>
    /\ UNCHANGED chatVars

\* The server answers the request on slot i with a 2xx response (ok), or the
\* request fails (transport error or non-2xx response).
RequestResponds(i, ok) ==
    /\ req[i].pc = "sent"
    /\ req' = [req EXCEPT ![i].pc = IF ok THEN "ok" ELSE "err"]
    /\ UNCHANGED <<bootVars, authVars, callVars, clientCfg, tokenAtCreate>>
    /\ UNCHANGED chatVars

\* Slot i is free again once its caller has taken the outcome.
releaseSlot(i) ==
    /\ req' = [req EXCEPT ![i] = IdleReq]
    /\ tokCall' = [tokCall EXCEPT ![i] = NoCall]
    /\ batch' = [batch EXCEPT !.members = @ \ {i}]

\* The API method that issued the request on slot i returns the response
\* data or throws the error.
ApiReturns(i) ==
    /\ req[i].pc \in {"ok", "err", "rejected"}
    /\ releaseSlot(i)
    /\ UNCHANGED <<bootVars, authVars, renewals, clientCfg, tokenAtCreate>>
    /\ UNCHANGED chatVars

----------------------------------------------------------------------------
\* The chat store (useChatStore): scope ids, the flag, local storage.

S_global == <<"g", "l", "o", "b", "a", "l">>
S_shared_ == <<"s", "h", "a", "r", "e", "d", "_">>
S_tenant_ == <<"t", "e", "n", "a", "n", "t", "_">>

\* The id of the option that is always present: "shared_global".
SharedGlobal == S_shared_ \o S_global

\* `tenant_${id}` and `shared_${domainId}`
tenantScope(id) == S_tenant_ \o id
sharedScope(domainId) == S_shared_ \o domainId

\* The placeholder of the scope-selector flag.
P_scope == VitePrefix \o <<"S", "C", "O", "P", "E">>

\* The runtime config entry (rt) and the build-time value (bt) of
\* VITE_ENABLE_SPACE_SELECTOR_IN_CHAT.
ScopeSettings ==
    { [rt |-> P_scope, bt |-> S_True],
      [rt |-> S_false, bt |-> S_true] }

\* isScopeSelectorEnabled
isScopeSelectorEnabled ==
    toLowerCase(String(pickValue(<<scopeCfg.rt, scopeCfg.bt, S_false>>))) = S_true

\* localStorage.getItem of a key that is not set.
Absent == <<[t |-> "null", v |-> <<>>]>>

\* The text of a stored value is a sequence of JSON tokens.
Tok(t, v) == [t |-> t, v |-> v]
LB == Tok("[", <<>>)
RB == Tok("]", <<>>)
Comma == Tok(",", <<>>)
StrTok(v) == Tok("str", v)
NumTok(v) == Tok("num", v)

RECURSIVE JoinItems(_)
\* The items of an array's text, separated by commas.
JoinItems(items) ==
    IF Len(items) = 0 THEN <<>>
    ELSE IF Len(items) = 1 THEN <<items[1]>>
    ELSE <<items[1], Comma>> \o JoinItems(Tail(items))

\* JSON.stringify of an array of strings
JSONStringify(ids) ==
    <<LB>> \o JoinItems([i \in DOMAIN ids |-> StrTok(ids[i])]) \o <<RB>>

IsItem(tok) == tok.t \in {"str", "num"}

\* The tokens between the brackets are items separated by single commas.
IsItemList(inner) ==
    \/ Len(inner) = 0
    \/ /\ Len(inner) % 2 = 1
       /\ \A i \in DOMAIN inner :
              IF i % 2 = 1 THEN IsItem(inner[i]) ELSE inner[i] = Comma

\* JSON.parse: an array of scalars, a scalar, or a SyntaxError (ok = FALSE).
JSONParse(raw) ==
    IF Len(raw) >= 2 /\ raw[1] = LB /\ raw[Len(raw)] = RB
          /\ IsItemList(SubSeq(raw, 2, Len(raw) - 1))
    THEN LET inner == SubSeq(raw, 2, Len(raw) - 1)
             n == (Len(inner) + 1) \div 2
         IN [ok |-> TRUE, isArray |-> TRUE,
             items |-> [i \in 1..n |-> inner[2 * i - 1]]]
    ELSE IF Len(raw) = 1 /\ IsItem(raw[1])
    THEN [ok |-> TRUE, isArray |-> FALSE, items |-> raw]
    ELSE [ok |-> FALSE, isArray |-> FALSE, items |-> <<>>]

\* String(item) of a parsed scalar: a string is itself, a number its digits.
StringOfItem(item) == item.v

\* persistSelectedScopes writing the empty list whatever the selection.
persistSelectedScopes_empty(selected) == JSONStringify(<<>>)

\* persistSelectedScopes: the value the storage key holds afterwards.
persistSelectedScopes(selected) == JSONStringify(selected)

\* clearPersistedScopes: the key is removed.
clearPersistedScopes == Absent

\* restoreSelectedScopes without the test of the feature flag.
restoreSelectedScopes_ignoresFlag(enabled, raw) ==
    IF raw = Absent \/ raw = <<>>
    THEN [selected |-> <<>>, stored |-> raw]
    ELSE LET parsed == JSONParse(raw)
         IN [selected |-> IF parsed.ok /\ parsed.isArray
                          THEN [i \in DOMAIN parsed.items |->
                                   StringOfItem(parsed.items[i])]
                          ELSE <<>>,
             stored |-> raw]

\* restoreSelectedScopes: the selection and the stored value afterwards.
restoreSelectedScopes(enabled, raw) ==
    IF ~enabled
    THEN [selected |-> <<>>, stored |-> clearPersistedScopes]
    ELSE IF raw = Absent \/ raw = <<>>
    THEN [selected |-> <<>>, stored |-> raw]
    ELSE LET parsed == JSONParse(raw)
         IN [selected |-> IF parsed.ok /\ parsed.isArray
                          THEN [i \in DOMAIN parsed.items |->
                                   StringOfItem(parsed.items[i])]
                          ELSE <<>>,
             stored |-> raw]

\* The ids in a list of ids.
Ids(list) == {list[i] : i \in DOMAIN list}

\* normalizeSelectedScopes without the filter.
normalizeSelectedScopes_keepsAll(enabled, selected, available) ==
    IF ~enabled
    THEN [selected |-> <<>>, stored |-> clearPersistedScopes]
    ELSE [selected |-> selected, stored |-> persistSelectedScopes(selected)]

\* normalizeSelectedScopes: the selection and the stored value afterwards.
normalizeSelectedScopes(enabled, selected, available) ==
    IF ~enabled
    THEN [selected |-> <<>>, stored |-> clearPersistedScopes]
    ELSE LET allowed == Ids(available)
             kept == SelectSeq(selected, LAMBDA scopeId : scopeId \in allowed)
         IN [selected |-> kept, stored |-> persistSelectedScopes(kept)]

----------------------------------------------------------------------------
\* Claims of the access token and the scope options derived from them.

\* A claim value: missing, an array of strings, or a string.
NoClaim == [kind |-> "absent", items |-> <<>>, text |-> <<>>]
ArrayClaim(items) == [kind |-> "array", items |-> items, text |-> <<>>]
StringClaim(text) == [kind |-> "string", items |-> <<>>, text |-> text]

RECURSIVE trimStart(_)
trimStart(str) ==
    IF Len(str) > 0 /\ str[1] = " " THEN trimStart(Tail(str)) ELSE str

RECURSIVE trimEnd(_)
trimEnd(str) ==
    IF Len(str) > 0 /\ str[Len(str)] = " "
    THEN trimEnd(SubSeq(str, 1, Len(str) - 1))
    ELSE str

\* String.prototype.trim
trim(str) == trimEnd(trimStart(str))

RECURSIVE split(_)
\* value.split(",")
split(str) ==
    IF \E i \in DOMAIN str : str[i] = ","
    THEN LET k == CHOOSE i \in DOMAIN str :
                      /\ str[i] = ","
                      /\ \A j \in 1..(i - 1) : str[j] # ","
         IN <<SubSeq(str, 1, k - 1)>> \o split(SubSeq(str, k + 1, Len(str)))
    ELSE <<str>>

\* filter(Boolean) on a list of strings
filterBoolean(list) == SelectSeq(list, LAMBDA item : item # <<>>)

\* toStringList
toStringList(value) ==
    IF value.kind = "array"
    THEN filterBoolean(value.items)
    ELSE IF value.kind = "string" /\ Len(trim(value.text)) > 0
    THEN IF \E i \in DOMAIN value.text : value.text[i] = ","
         THEN LET parts == split(value.text)
              IN filterBoolean([i \in DOMAIN parts |-> trim(parts[i])])
         ELSE <<trim(value.text)>>
    ELSE <<>>

\* The claims decoded from a token; decoded = FALSE is the null of a
\* malformed or absent token.
NullClaims ==
    [decoded |-> FALSE, tenant_id |-> <<>>,
     allowed_tenant_ids |-> NoClaim, allowed_domain_ids |-> NoClaim]

ClaimSets ==
    { NullClaims,
      [decoded |-> TRUE, tenant_id |-> <<"b">>,
       allowed_tenant_ids |-> ArrayClaim(<<<<"a">>, <<>>>>),
       allowed_domain_ids |-> StringClaim(<<"x", ",", " ", "y", " ">>)] }

\* updateAvailableScopes, lines 131-146: the ids of the options built from
\* the claims.
scopeOptions(c) ==
    IF ~c.decoded
    THEN <<SharedGlobal>>
    ELSE LET listed == toStringList(c.allowed_tenant_ids)
             tenantIds == IF c.tenant_id # <<>> /\ c.tenant_id \notin Ids(listed)
                          THEN <<c.tenant_id>> \o listed
                          ELSE listed
             domainIds == toStringList(c.allowed_domain_ids)
         IN <<SharedGlobal>>
                \o [i \in DOMAIN tenantIds |-> tenantScope(tenantIds[i])]
                \o [i \in DOMAIN domainIds |-> sharedScope(domainIds[i])]

\* authService.getAccessTokenClaims: null without a session.
getAccessTokenClaims == IF session = NoToken THEN NullClaims ELSE claims

----------------------------------------------------------------------------
\* The chat store's state and operations.

\* Scope ids a user can hand to toggleScope.
ToggleIds == {SharedGlobal, tenantScope(<<"a">>)}

\* Values a browser can hold under the storage key when a page loads.
StoredValues ==
    { Absent,
      JSONStringify(<<SharedGlobal, tenantScope(<<"a">>)>>),
      JSONStringify(<<tenantScope(<<"z">>), SharedGlobal>>),
      <<LB, StrTok(SharedGlobal)>> }

NoUpd == [pc |-> "idle", by |-> "none"]
NoInf == [pc |-> "idle", n |-> 0, passed |-> Undefined, stale |-> FALSE]
NoLogout == [stored |-> FALSE, toggled |-> {}]

\* The stored value is a non-empty array of scope ids.
HoldsSelection(raw) ==
    /\ raw # Absent
    /\ JSONParse(raw).ok /\ JSONParse(raw).isArray
    /\ Len(JSONParse(raw).items) > 0

\* A chat message: the call that created it (n), the call whose answer it
\* shows (text, 0 for none), the error mark.
Message(role, n, skipAPI) ==
    [role |-> role, n |-> n, text |-> 0, hasError |-> FALSE, skipAPI |-> skipAPI]

\* No function is evaluated on its own.
NoFn == [op |-> "none", args |-> <<>>]
NoRet == [done |-> FALSE, value |-> <<>>]

\* The function has returned value.
Returned(value) == [done |-> TRUE, value |-> value]

NoPrev == [loaded |-> FALSE, started |-> FALSE, selected |-> <<>>]
NoUpload == [pc |-> "none"]
NoFnCall == call = NoFn /\ ret = NoRet /\ prev = NoPrev /\ upload = NoUpload

\* The store as defineStore's setup function creates it (lines 28-37).
StoreFresh ==
    /\ conversationId = 0
    /\ chatHistory = <<>>
    /\ isLoading = FALSE
    /\ isAuthenticated = FALSE
    /\ availableScopes = <<SharedGlobal>>
    /\ selectedScopeIds = <<>>
    /\ upd = [u \in UpdIds |-> NoUpd]
    /\ inf = [k \in ReqIds |-> NoInf]
    /\ logoutPc = "idle"
    /\ logoutLog = NoLogout
    /\ prompts = 0
    /\ refreshes = 0

\* A page load creates the store anew.
createStore ==
    /\ conversationId' = 0
    /\ chatHistory' = <<>>
    /\ isLoading' = FALSE
    /\ isAuthenticated' = FALSE
    /\ availableScopes' = <<SharedGlobal>>
    /\ selectedScopeIds' = <<>>
    /\ upd' = [u \in UpdIds |-> NoUpd]
    /\ inf' = [k \in ReqIds |-> NoInf]
    /\ logoutPc' = "idle"
    /\ logoutLog' = NoLogout
    /\ prompts' = 0
    /\ refreshes' = 0

\* The slot a new updateAvailableScopes call runs on: the first free one.
IsFreeUpd(u) ==
    /\ upd[u].pc = "idle"
    /\ \A v \in UpdIds : v < u => upd[v].pc # "idle"

\* The slot a new callInference call runs on: the first free one.
IsFreeInf(k) ==
    /\ inf[k].pc = "idle" /\ req[k].pc = "idle"
    /\ \A j \in ReqIds : j < k => ~(inf[j].pc = "idle" /\ req[j].pc = "idle")

\* What no store operation changes.
pageFixed == <<bootVars, clientCfg, tokenAtCreate, scopeCfg, claims, fnVars>>

\* updateAvailableScopes up to its first await: the call on slot u awaits
\* authService.getAccessToken().
updateAvailableScopes(u, by) ==
    /\ IsFreeUpd(u)
    /\ upd' = [upd EXCEPT ![u] = [pc |-> "token", by |-> by]]
    /\ getAccessToken(UpdCaller(u))

\* updateAvailableScopes returns: a logout awaiting it completes.
updateAvailableScopes_returns(u) ==
    /\ upd' = [upd EXCEPT ![u] = NoUpd]
    /\ logoutPc' = IF upd[u].by = "logout" THEN "done" ELSE logoutPc

\* A component calls the store's updateAvailableScopes.
UpdateAvailableScopes(u) ==
    /\ refreshes < MaxRefreshes
    /\ refreshes' = refreshes + 1
    /\ updateAvailableScopes(u, "view")
    /\ UNCHANGED <<pageFixed, authVars, req, storage>>
    /\ UNCHANGED <<conversationId, selectedScopeIds, availableScopes,
                   isAuthenticated, isLoading, chatHistory, logoutPc, inf,
                   logoutLog, prompts>>

\* updateAvailableScopes resumes with the token (lines 123-130).
UpdateAvailableScopes_token(u) ==
    /\ upd[u].pc = "token"
    /\ tokCall[UpdCaller(u)].st = "ready"
    /\ LET token == tokCall[UpdCaller(u)].val
       IN /\ isAuthenticated' = (token # NoToken)
          /\ IF token = NoToken
             THEN LET n == normalizeSelectedScopes(isScopeSelectorEnabled,
                                 selectedScopeIds, <<SharedGlobal>>)
                  IN /\ availableScopes' = <<SharedGlobal>>
                     /\ selectedScopeIds' = n.selected
                     /\ storage' = n.stored
                     /\ updateAvailableScopes_returns(u)
             ELSE /\ upd' = [upd EXCEPT ![u].pc = "claims"]
                  /\ UNCHANGED <<availableScopes, selectedScopeIds, storage,
                                 logoutPc>>
    /\ tokCall' = [tokCall EXCEPT ![UpdCaller(u)] = NoCall]
    /\ batch' = [batch EXCEPT !.members = @ \ {UpdCaller(u)}]
    /\ UNCHANGED <<pageFixed, authVars, req, renewals>>
    /\ UNCHANGED <<conversationId, isLoading, chatHistory, inf, logoutLog,
                   prompts, refreshes>>

\* updateAvailableScopes resumes with the claims (lines 131-149).
UpdateAvailableScopes_claims(u) ==
    /\ upd[u].pc = "claims"
    /\ LET options == scopeOptions(getAccessTokenClaims)
           n == normalizeSelectedScopes(isScopeSelectorEnabled,
                                        selectedScopeIds, options)
       IN /\ availableScopes' = options
          /\ selectedScopeIds' = n.selected
          /\ storage' = n.stored
    /\ updateAvailableScopes_returns(u)
    /\ UNCHANGED <<pageFixed, authVars, callVars, req>>
    /\ UNCHANGED <<conversationId, isAuthenticated, isLoading, chatHistory,
                   inf, logoutLog, prompts, refreshes>>

\* initiateConversation (lines 235-247).
initiateConversation(u) ==
    /\ conversationId = 0
    /\ conversationId' = 1
    /\ LET r == restoreSelectedScopes(isScopeSelectorEnabled, storage)
       IN /\ selectedScopeIds' = r.selected
          /\ storage' = r.stored
    /\ updateAvailableScopes(u, "init")
    /\ chatHistory' = Append(chatHistory, Message("assistant", 0, TRUE))
    /\ UNCHANGED <<pageFixed, authVars, req>>
    /\ UNCHANGED <<availableScopes, isAuthenticated, isLoading, logoutPc, inf,
                   logoutLog, prompts, refreshes>>

\* toggleScope (lines 272-282).
toggleScope(scopeId) ==
    /\ LET toggled == IF scopeId \in Ids(selectedScopeIds)
                      THEN SelectSeq(selectedScopeIds, LAMBDA id : id # scopeId)
                      ELSE Append(selectedScopeIds, scopeId)
           n == normalizeSelectedScopes(isScopeSelectorEnabled, toggled,
                                        availableScopes)
       IN IF ~isScopeSelectorEnabled
          THEN UNCHANGED <<selectedScopeIds, storage>>
          ELSE /\ selectedScopeIds' = n.selected
               /\ storage' = n.stored
    /\ logoutLog' = IF /\ isScopeSelectorEnabled
                       /\ logoutPc = "refresh"
                       /\ scopeId \notin Ids(selectedScopeIds)
                    THEN [logoutLog EXCEPT !.toggled = @ \cup {scopeId}]
                    ELSE logoutLog
    /\ UNCHANGED <<pageFixed, authVars, callVars, req>>
    /\ UNCHANGED <<conversationId, availableScopes, isAuthenticated, isLoading,
                   chatHistory, upd, logoutPc, inf, prompts, refreshes>>

\* selectAllScopes (lines 284-290).
selectAllScopes ==
    /\ IF ~isScopeSelectorEnabled
       THEN UNCHANGED <<selectedScopeIds, storage>>
       ELSE /\ selectedScopeIds' = <<>>
            /\ storage' = persistSelectedScopes(<<>>)
    /\ UNCHANGED <<pageFixed, authVars, callVars, req>>
    /\ UNCHANGED <<conversationId, availableScopes, isAuthenticated, isLoading,
                   chatHistory, upd, logoutPc, inf, logoutLog, prompts, refreshes>>

\* logout leaving the selection as it is.
logout_selection_kept == selectedScopeIds

\* logout, line 267: `selectedScopeIds.value = []`
logout_selection == <<>>

\* logout is called (line 266): it awaits authService.logout().
logout_call ==
    /\ logoutPc \in {"idle", "done"}
    /\ logoutPc' = "authLogout"
    /\ logoutLog' = [stored |-> HoldsSelection(storage), toggled |-> {}]
    /\ UNCHANGED <<pageFixed, authVars, callVars, req, storage>>
    /\ UNCHANGED <<conversationId, selectedScopeIds, availableScopes,
                   isAuthenticated, isLoading, chatHistory, upd, inf, prompts, refreshes>>

\* authService.logout completes: the local session is cleared.
logout_authService ==
    /\ logoutPc = "authLogout"
    /\ logoutPc' = "cleared"
    /\ session' = NoToken
    /\ expired' = FALSE
    /\ UNCHANGED <<pageFixed, idpSession, issued, callVars, req, storage>>
    /\ UNCHANGED <<conversationId, selectedScopeIds, availableScopes,
                   isAuthenticated, isLoading, chatHistory, upd, inf,
                   logoutLog, prompts, refreshes>>

\* logout resumes (lines 267-269): the selection and the stored value are
\* cleared and updateAvailableScopes is awaited.
logout_resumes(u) ==
    /\ logoutPc = "cleared"
    /\ selectedScopeIds' = logout_selection
    /\ storage' = clearPersistedScopes
    /\ updateAvailableScopes(u, "logout")
    /\ logoutPc' = "refresh"
    /\ UNCHANGED <<pageFixed, authVars, req>>
    /\ UNCHANGED <<conversationId, availableScopes, isAuthenticated, isLoading,
                   chatHistory, inf, logoutLog, prompts, refreshes>>

\* The scope argument callInference hands to ChatAPI.callInference (line 206).
scopeArgument ==
    IF isScopeSelectorEnabled /\ Len(selectedScopeIds) > 0
    THEN selectedScopeIds
    ELSE Undefined

\* prepareInferenceRequest (lines 170-180): the request model of prompt n.
prepareInferenceRequest(n) == [session_id |-> conversationId, message |-> n]

\* ChatAPI.callInference (chat.api.ts 49-54) called with the arguments args:
\* the POST it issues. The method declares the one parameter request.
ChatAPI_callInference(args) ==
    LET request == args[1]
    IN [url |-> <<"chat", request.session_id>>, data |-> request]

\* The scope selection a POST carries.
ScopeOf(post) ==
    IF "scope" \in DOMAIN post.data THEN post.data.scope ELSE Undefined

\* updateLatestMessage: Object.assign(lastMessage(), update)
updateLatestMessage(history, field, value) ==
    IF field = "text"
    THEN [history EXCEPT ![Len(history)].text = value]
    ELSE [history EXCEPT ![Len(history)].hasError = value]

\* callInference is called on slot k (lines 197-201): it awaits
\* marked(prompt).
callInference_begin(k) ==
    /\ IsFreeInf(k)
    /\ prompts' = prompts + 1
    /\ isLoading' = TRUE
    /\ inf' = [inf EXCEPT ![k] = [NoInf EXCEPT !.pc = "marked", !.n = prompts + 1]]
    /\ UNCHANGED <<pageFixed, authVars, callVars, req, storage>>
    /\ UNCHANGED <<conversationId, selectedScopeIds, availableScopes,
                   isAuthenticated, chatHistory, upd, logoutPc, logoutLog, refreshes>>

\* The view calls callInference on slot k.
callInference_call(k) == prompts < MaxPrompts /\ callInference_begin(k)

\* callInference resumes (lines 202-207): addHistory, then
\* ChatAPI.callInference issues the POST on slot k.
callInference_request(k) ==
    /\ inf[k].pc = "marked"
    /\ chatHistory' = chatHistory \o <<Message("user", inf[k].n, FALSE),
                                       Message("assistant", inf[k].n, FALSE)>>
    /\ inf' = [inf EXCEPT ![k].pc = "request",
                          ![k].passed = scopeArgument,
                          ![k].stale = /\ scopeArgument # Undefined
                                       /\ ~(Ids(scopeArgument) \subseteq
                                                Ids(availableScopes))]
    /\ apiClient_request(k, "chat")
    /\ UNCHANGED <<pageFixed, authVars, storage>>
    /\ UNCHANGED <<conversationId, selectedScopeIds, availableScopes,
                   isAuthenticated, isLoading, upd, logoutPc, logoutLog,
                   prompts, refreshes>>

\* The request of callInference on slot k has its outcome: a response makes
\* the call await marked(response.answer); an error is caught (lines 225-232).
callInference_response(k) ==
    /\ inf[k].pc = "request"
    /\ req[k].pc \in {"ok", "err", "rejected"}
    /\ IF req[k].pc = "ok"
       THEN /\ inf' = [inf EXCEPT ![k].pc = "render"]
            /\ UNCHANGED <<chatHistory, isLoading>>
       ELSE /\ chatHistory' = updateLatestMessage(chatHistory, "hasError", TRUE)
            /\ isLoading' = FALSE
            /\ inf' = [inf EXCEPT ![k] = NoInf]
    /\ releaseSlot(k)
    /\ UNCHANGED <<pageFixed, authVars, renewals, storage>>
    /\ UNCHANGED <<conversationId, selectedScopeIds, availableScopes,
                   isAuthenticated, upd, logoutPc, logoutLog, prompts, refreshes>>

\* callInference resumes with the rendered answer (lines 211-224, 231).
callInference_rendered(k) ==
    /\ inf[k].pc = "render"
    /\ chatHistory' = updateLatestMessage(chatHistory, "text", inf[k].n)
    /\ isLoading' = FALSE
    /\ inf' = [inf EXCEPT ![k] = NoInf]
    /\ UNCHANGED <<pageFixed, authVars, callVars, req, storage>>
    /\ UNCHANGED <<conversationId, selectedScopeIds, availableScopes,
                   isAuthenticated, upd, logoutPc, logoutLog, prompts, refreshes>>


\* The user signs in: the round trip through the identity provider ends in a
\* fresh page with a stored user; the page that was loaded is gone.
PageSignedIn ==
    /\ issued < MaxTokens
    /\ issued' = issued + 1
    /\ session' = issued + 1
    /\ expired' = FALSE
    /\ idpSession' = TRUE
    /\ tokenAtCreate' = issued + 1
    /\ renewals' = 0
    /\ tokCall' = [c \in CallerIds |-> NoCall]
    /\ batch' = NoBatch
    /\ req' = [i \in ReqIds |-> IdleReq]
    /\ createStore
    /\ UNCHANGED <<bootVars, clientCfg, chatEnv, fnVars>>

\* authService.logout: the local session is cleared.
SessionLogout ==
    /\ session # NoToken
    /\ session' = NoToken
    /\ expired' = FALSE
    /\ UNCHANGED <<bootVars, idpSession, issued, pageVars>>

\* No request, no getAccessToken call and no renewal is in progress.
PageIdle ==
    /\ renewals = 0
    /\ tokCall = [c \in CallerIds |-> NoCall]
    /\ batch = NoBatch
    /\ req = [i \in ReqIds |-> IdleReq]

\* The mounted page of either application, with or without a stored user.
InitApi ==
    /\ app \in Apps
    /\ loc = "app"
    /\ path = RootPath
    /\ navBy = "user"
    /\ bootPc = "mounted"
    /\ run = NoRun
    /\ lastRun = NoRun
    /\ trip = 0
    /\ lastActor = "user"
    /\ session \in {NoToken, 1}
    /\ issued = session
    /\ expired = FALSE
    /\ idpSession = (session # NoToken)
    /\ clientCfg \in IF app = "chat" THEN ClientSettings ELSE {NoSettings}
    /\ tokenAtCreate = session
    /\ PageIdle
    /\ scopeCfg = [rt |-> P_scope, bt |-> Undefined]
    /\ storage = Absent
    /\ claims = NullClaims
    /\ StoreFresh
    /\ NoFnCall

NextApi ==
    \/ \E i \in ReqIds : ApiCall(i, app)
    \/ \E i \in ReqIds : HookResumes(i)
    \/ \E i \in ReqIds : \E ok \in BOOLEAN : RequestResponds(i, ok)
    \/ \E i \in ReqIds : ApiReturns(i)
    \/ \E ok \in BOOLEAN : RenewalCompletes(ok)
    \/ TokenExpires
    \/ SessionLogout
    \/ PageSignedIn

SpecApi == InitApi /\ [][NextApi]_vars

----------------------------------------------------------------------------
\* The chat page specification.

\* Settings of a chat client without basic-auth credentials.
PlainSettings ==
    [flagRt |-> P_flag, flagBt |-> Undefined, userRt |-> P_user,
     userBt |-> Undefined, passRt |-> <<>>, passBt |-> Undefined]

\* The mounted chat page before the chat view has initiated a conversation.
InitChat ==
    /\ app = "chat"
    /\ loc = "app"
    /\ path = RootPath
    /\ navBy = "user"
    /\ bootPc = "mounted"
    /\ run = NoRun
    /\ lastRun = NoRun
    /\ trip = 0
    /\ lastActor = "user"
    /\ session \in {NoToken, 1}
    /\ issued = session
    /\ expired = FALSE
    /\ idpSession = (session # NoToken)
    /\ clientCfg = PlainSettings
    /\ tokenAtCreate = session
    /\ PageIdle
    /\ scopeCfg \in ScopeSettings
    /\ storage \in StoredValues
    /\ claims \in IF session = NoToken THEN {NullClaims} ELSE ClaimSets
    /\ StoreFresh
    /\ NoFnCall

NextChat ==
    \/ \E u \in UpdIds : initiateConversation(u)
    \/ \E u \in UpdIds : UpdateAvailableScopes(u)
    \/ \E u \in UpdIds : UpdateAvailableScopes_token(u)
    \/ \E u \in UpdIds : UpdateAvailableScopes_claims(u)
    \/ \E scopeId \in ToggleIds : toggleScope(scopeId)
    \/ selectAllScopes
    \/ logout_call
    \/ logout_authService
    \/ \E u \in UpdIds : logout_resumes(u)
    \/ \E k \in ReqIds : callInference_call(k)
    \/ \E k \in ReqIds : callInference_request(k)
    \/ \E k \in ReqIds : HookResumes(k)
    \/ \E k \in ReqIds : \E ok \in BOOLEAN : RequestResponds(k, ok)
    \/ \E k \in ReqIds : callInference_response(k)
    \/ \E k \in ReqIds : callInference_rendered(k)

SpecChat == InitChat /\ [][NextChat]_vars

----------------------------------------------------------------------------
\* The bootstrap specification: one browser tab from its first page load.

InitBoot ==
    /\ app \in Apps
    /\ loc = "app"
    /\ path \in Paths
    /\ navBy = "user"
    /\ bootPc = "getUser"
    /\ run = NewRun(path)
    /\ lastRun = NoRun
    /\ trip = 0
    /\ lastActor = "user"
    /\ session = NoToken
    /\ expired = FALSE
    /\ idpSession \in BOOLEAN
    /\ issued = 0
    /\ clientCfg = NoSettings
    /\ tokenAtCreate = NoToken
    /\ PageIdle
    /\ scopeCfg = [rt |-> P_scope, bt |-> Undefined]
    /\ storage = Absent
    /\ claims = NullClaims
    /\ StoreFresh
    /\ NoFnCall

\* The steps the application and the identity provider take by themselves.
AutoBoot ==
    \/ setupApp_getUser
    \/ setupApp_login
    \/ setupApp_loginFails
    \/ \E ok \in BOOLEAN : setupApp_handleCallback(ok)
    \/ setupApp_mount
    \/ IdpRedirect

\* The steps a user takes.
UserBoot ==
    \/ UserSignsIn
    \/ \E p \in Paths : UserNavigates(p)
    \/ \E keepSso \in BOOLEAN : UserLogsOut(keepSso)

NextBoot == AutoBoot \/ UserBoot

SpecBoot == InitBoot /\ [][NextBoot]_vars

\* The browser runs a loaded page's script and the identity provider answers
\* a request: an automatic step that stays possible is eventually taken.
FairBoot == SpecBoot /\ WF_vars(AutoBoot)

----------------------------------------------------------------------------
\* Functions evaluated on their own: the arguments are drawn when the
\* behaviour starts, one step evaluates the function.

\* A loaded chat page on which nothing happens.
QuietPage ==
    /\ app = "chat"
    /\ loc = "app"
    /\ path = RootPath
    /\ navBy = "user"
    /\ bootPc = "mounted"
    /\ run = NoRun
    /\ lastRun = NoRun
    /\ trip = 0
    /\ lastActor = "user"
    /\ session = NoToken
    /\ issued = 0
    /\ expired = FALSE
    /\ idpSession = FALSE
    /\ clientCfg = PlainSettings
    /\ tokenAtCreate = NoToken
    /\ PageIdle
    /\ scopeCfg = [rt |-> P_scope, bt |-> Undefined]
    /\ storage = Absent
    /\ claims = NullClaims
    /\ StoreFresh
    /\ prev = NoPrev
    /\ upload = NoUpload

\* What evaluating a function leaves alone.
quietVars == <<bootVars, authVars, callVars, apiVars, chatEnv, storeVars>>

\* The sequences over S of length at most n.
SeqsUpTo(S, n) == UNION {[1..k -> S] : k \in 0..n}

\* Candidates per pickValue call.
MaxCandidates == 3

S_https_x == <<"h", "t", "t", "p", "s", ":", "/", "/", "x">>
S_https_y == <<"h", "t", "t", "p", "s", ":", "/", "/", "y">>
P_api == VitePrefix \o <<"A", "P", "I", "_", "U", "R", "L">>

\* Values a runtime-config entry or a build-time value can have: unset, empty,
\* unresolved placeholders, strings that only resemble one, real values.
CandidateValues ==
    { Undefined, <<>>, P_api, VitePrefix \o <<"9", "_">>,
      VitePrefix, VitePrefix \o <<"a">>, <<"x">> \o P_api, <<" ">>,
      S_https_x, S_https_y }

InitPickValue ==
    /\ QuietPage
    /\ call \in {[op |-> "pickValue", args |-> c] :
                      c \in SeqsUpTo(CandidateValues, MaxCandidates)}
    /\ ret = NoRet

\* pickValue(...candidates) returns.
pickValue_returns ==
    /\ call.op = "pickValue"
    /\ ~ret.done
    /\ ret' = Returned(pickValue(call.args))
    /\ UNCHANGED <<quietVars, call, prev, upload>>

SpecPickValue == InitPickValue /\ [][pickValue_returns]_vars

----------------------------------------------------------------------------
\* The settings the modules read when they are loaded (part_005, the API
\* clients, the App components, the chat store, the upload container).

\* defaultSettings (part_005 23-41)
D_botName ==
    <<"K", "n", "o", "w", "l", "e", "d", "g", "e", " ", "A", "g", "e", "n",
      "t">>
D_logoPath ==
    <<"/", "a", "s", "s", "e", "t", "s", "/", "n", "a", "v", "i", "g", "a",
      "t", "i", "o", "n", "-", "l", "o", "g", "o", ".", "s", "v", "g">>
D_themeDefault == <<"d", "a", "r", "k">>
D_themeOptions == <<<<"l", "i", "g", "h", "t">>, <<"d", "a", "r", "k">>>>
D_useMockData == FALSE

\* window.location.origin
S_origin == <<"h", "t", "t", "p", ":", "/", "/", "o">>

\* envStr(val, fallback, key), with rtVal = window.config[key]
envStr(val, fallback, rtVal) ==
    IF Truthy(rtVal) THEN rtVal
    ELSE IF val = Undefined THEN fallback
    ELSE IF Len(trim(val)) > 0 THEN trim(val)
    ELSE fallback

\* envBool(val, fallback, key), with rtVal = window.config[key]
envBool(val, fallback, rtVal) ==
    LET r == IF Truthy(rtVal) THEN toLowerCase(trim(rtVal)) ELSE <<>>
        v == IF val = Undefined THEN <<>> ELSE toLowerCase(trim(val))
    IN IF r = S_true THEN TRUE
       ELSE IF r = S_false THEN FALSE
       ELSE IF val = Undefined THEN fallback
       ELSE IF v = S_true THEN TRUE
       ELSE IF v = S_false THEN FALSE
       ELSE fallback

\* settings.ui.theme.options (part_005 89-92): read from the build-time
\* value alone.
themeOptions(val) ==
    IF val # Undefined /\ Len(trim(val)) > 0
    THEN LET parts == split(val)
         IN filterBoolean([i \in DOMAIN parts |-> trim(parts[i])])
    ELSE D_themeOptions

\* String(pickValue(rt, bt, 'false')).toLowerCase() === 'true' (part_004
\* 38-47, DocumentUploadContainer.vue 29-31)
flagDefaultFalse(rt, bt) ==
    toLowerCase(String(pickValue(<<rt, bt, S_false>>))) = S_true

\* The settings, by the name of the constant or field that holds them. The
\* arguments are the runtime-config entry (rt) and the build-time value (bt)
\* of the setting's key and, where a second key is consulted, of that key
\* (rt2, bt2).
OneKeySettings ==
    { "chat.rawBaseUrl", "isChatAuthEnabled", "authUsername", "authPassword",
      "chatURL", "adminURL", "isScopeSelectorEnabled", "uploadSharingFlag",
      "bot.name", "ui.logoPath", "ui.theme.default", "ui.theme.options",
      "features.useMockData" }
TwoKeySettings == {"admin.rawBaseUrl", "ui.logo.light", "ui.logo.dark"}
SettingNames == OneKeySettings \cup TwoKeySettings

\* The value a module computes for the setting from the four inputs.
resolveSetting(name, a) ==
    CASE name = "chat.rawBaseUrl" -> pickValue(<<a.rt, a.bt, S_origin>>)
      [] name = "admin.rawBaseUrl" ->
             pickValue(<<a.rt, a.bt, a.rt2, a.bt2, S_origin>>)
      [] name = "isChatAuthEnabled" ->
             isChatAuthEnabled([flagRt |-> a.rt, flagBt |-> a.bt])
      [] name = "authUsername" -> authUsername([userRt |-> a.rt, userBt |-> a.bt])
      [] name = "authPassword" -> authPassword([passRt |-> a.rt, passBt |-> a.bt])
      [] name = "chatURL" -> pickValue(<<a.rt, a.bt>>)
      [] name = "adminURL" -> pickValue(<<a.rt, a.bt>>)
      [] name = "isScopeSelectorEnabled" -> flagDefaultFalse(a.rt, a.bt)
      [] name = "uploadSharingFlag" -> flagDefaultFalse(a.rt, a.bt)
      [] name = "bot.name" -> envStr(a.bt, D_botName, a.rt)
      [] name = "ui.logoPath" -> envStr(a.bt, D_logoPath, a.rt)
      [] name = "ui.logo.light" ->
             envStr(a.bt, envStr(a.bt2, D_logoPath, a.rt2), a.rt)
      [] name = "ui.logo.dark" ->
             envStr(a.bt, envStr(a.bt2, D_logoPath, a.rt2), a.rt)
      [] name = "ui.theme.default" -> envStr(a.bt, D_themeDefault, a.rt)
      [] name = "ui.theme.options" -> themeOptions(a.bt)
      [] name = "features.useMockData" -> envBool(a.bt, D_useMockData, a.rt)

P_key == VitePrefix \o <<"K", "E", "Y">>
S_list == <<"x", ",", "y">>

\* Values of a runtime-config entry or a build-time value.
SettingValues == {Undefined, <<>>, P_key, S_True, S_false, S_list}

SettingArgs(name) ==
    IF name \in TwoKeySettings
    THEN [rt : SettingValues, bt : SettingValues,
          rt2 : SettingValues, bt2 : SettingValues]
    ELSE [rt : SettingValues, bt : SettingValues,
          rt2 : {Undefined}, bt2 : {Undefined}]

InitSettings ==
    /\ QuietPage
    /\ call \in UNION {{[op |-> name, args |-> a] : a \in SettingArgs(name)} :
                           name \in SettingNames}
    /\ ret = NoRet

\* The module that holds the setting is loaded and computes it.
readSetting ==
    /\ call.op \in SettingNames
    /\ ~ret.done
    /\ ret' = Returned(resolveSetting(call.op, call.args))
    /\ UNCHANGED <<quietVars, call, prev, upload>>

SpecSettings == InitSettings /\ [][readSetting]_vars

----------------------------------------------------------------------------
\* normalizeSelectedScopes applied to a selection and a list of available
\* scopes.

MaxSelected == 3
MaxAvailable == 2

ScopeA == SharedGlobal
ScopeB == tenantScope(<<"a">>)
ScopeC == tenantScope(<<"z">>)
ScopeIds == {ScopeA, ScopeB, ScopeC}

InitNormalize ==
    /\ QuietPage
    /\ call \in {[op |-> "normalizeSelectedScopes",
                   args |-> [enabled |-> e, selected |-> sel, available |-> av]] :
                     e \in BOOLEAN,
                     sel \in SeqsUpTo(ScopeIds, MaxSelected),
                     av \in SeqsUpTo(ScopeIds, MaxAvailable)}
    /\ ret = NoRet

normalizeSelectedScopes_returns ==
    /\ call.op = "normalizeSelectedScopes"
    /\ ~ret.done
    /\ ret' = Returned(normalizeSelectedScopes(call.args.enabled,
                                               call.args.selected,
                                               call.args.available))
    /\ UNCHANGED <<quietVars, call, prev, upload>>

SpecNormalize == InitNormalize /\ [][normalizeSelectedScopes_returns]_vars

----------------------------------------------------------------------------
\* The chat page is reloaded: the session, the claims and the flag stay as
\* they are, local storage is kept, the store is created anew.

\* The scope options updateAvailableScopes computes for the session.
sessionOptions ==
    IF session = NoToken THEN <<SharedGlobal>> ELSE scopeOptions(claims)

\* The scopes available to the user have not changed since the stored value
\* was written: it names available scopes only.
InitReload ==
    /\ InitChat
    /\ Ids(restoreSelectedScopes(TRUE, storage).selected) \subseteq Ids(sessionOptions)

PageReloads ==
    /\ ~prev.loaded
    /\ prev' = [loaded |-> TRUE, started |-> conversationId # 0,
                selected |-> selectedScopeIds]
    /\ tokenAtCreate' = session
    /\ renewals' = 0
    /\ tokCall' = [c \in CallerIds |-> NoCall]
    /\ batch' = NoBatch
    /\ req' = [i \in ReqIds |-> IdleReq]
    /\ createStore
    /\ UNCHANGED <<bootVars, authVars, clientCfg, chatEnv, call, ret, upload>>

\* The user changes the selection on the page that is reloaded later.
NextReload ==
    \/ \E u \in UpdIds : initiateConversation(u)
    \/ \E u \in UpdIds : UpdateAvailableScopes(u)
    \/ \E u \in UpdIds : UpdateAvailableScopes_token(u)
    \/ \E u \in UpdIds : UpdateAvailableScopes_claims(u)
    \/ \E scopeId \in ToggleIds : ~prev.loaded /\ toggleScope(scopeId)
    \/ ~prev.loaded /\ selectAllScopes
    \/ PageReloads

SpecReload == InitReload /\ [][NextReload]_vars

----------------------------------------------------------------------------
\* One method of DocumentAPI or ChatAPI is called and its outcome is kept.

DocumentMethods ==
    {"loadDocuments", "uploadDocument", "loadConfluence", "loadSitemap",
     "deleteDocument", "getDocumentReference"}
ChatMethods == {"callInference"}

\* The error axios rejects the request of slot i with: a transport error or
\* a non-2xx response ("err"), or what the request hook threw ("rejected").
AxiosError(i, kind) == [isAxiosError |-> kind = "err", request |-> i]

\* What `await apiClient.get/post/delete(...)` gives the method.
axiosOutcome(i) ==
    IF req[i].pc = "ok"
    THEN [ok |-> TRUE, data |-> i]
    ELSE [ok |-> FALSE, error |-> AxiosError(i, req[i].pc)]

\* handleError throwing a new error that wraps the one it was given.
handleError_wraps(error) ==
    [threw |-> TRUE, value |-> [isAxiosError |-> FALSE, cause |-> error]]

\* DocumentAPI.handleError (document.api.ts 187-194): logs, then `throw error`.
handleError(error) == [threw |-> TRUE, value |-> error]

\* The method's own code around the request: DocumentAPI methods catch and
\* call handleError (59-184); ChatAPI.callInference has no catch (50-53).
methodOutcome(op, outcome) ==
    IF outcome.ok
    THEN [threw |-> FALSE, value |-> outcome.data]
    ELSE IF op \in DocumentMethods
    THEN handleError(outcome.error)
    ELSE [threw |-> TRUE, value |-> outcome.error]

\* A component calls the method op; its request goes out on slot i.
ApiMethodCall(i, op) ==
    /\ call = NoFn
    /\ op \in IF app = "admin" THEN DocumentMethods ELSE ChatMethods
    /\ req[i].pc = "idle"
    /\ call' = [op |-> op, args |-> <<i>>]
    /\ apiClient_request(i, app)
    /\ UNCHANGED <<bootVars, authVars, clientCfg, tokenAtCreate>>
    /\ UNCHANGED <<chatEnv, storeVars, ret, prev, upload>>

\* The awaited request has its outcome and the method returns or throws.
ApiMethodReturns ==
    /\ call.op \in DocumentMethods \cup ChatMethods
    /\ ~ret.done
    /\ LET i == call.args[1]
       IN /\ req[i].pc \in {"ok", "err", "rejected"}
          /\ ret' = Returned([response |-> req[i].pc,
                              requests |-> req[i].sends,
                              result |-> methodOutcome(call.op, axiosOutcome(i))])
          /\ releaseSlot(i)
    /\ UNCHANGED <<bootVars, authVars, renewals, clientCfg, tokenAtCreate>>
    /\ UNCHANGED <<chatEnv, storeVars, call, prev, upload>>

NextApiMethod ==
    \/ \E i \in ReqIds : \E op \in DocumentMethods \cup ChatMethods :
           ApiMethodCall(i, op)
    \/ \E i \in ReqIds : HookResumes(i)
    \/ \E i \in ReqIds : \E ok \in BOOLEAN : RequestResponds(i, ok)
    \/ ApiMethodReturns
    \/ \E ok \in BOOLEAN : RenewalCompletes(ok)
    \/ TokenExpires

SpecApiMethod == InitApi /\ [][NextApiMethod]_vars

----------------------------------------------------------------------------
\* The chat page on which prompts are sent, once the conversation has been
\* initiated, while earlier ones are still being answered.

MaxOverlapping == 2

NextInference ==
    \/ \E u \in UpdIds : initiateConversation(u)
    \/ \E u \in UpdIds : UpdateAvailableScopes_token(u)
    \/ \E u \in UpdIds : UpdateAvailableScopes_claims(u)
    \/ \E k \in ReqIds :
           conversationId # 0 /\ prompts < MaxOverlapping /\ callInference_begin(k)
    \/ \E k \in ReqIds : callInference_request(k)
    \/ \E k \in ReqIds : HookResumes(k)
    \/ \E k \in ReqIds : \E ok \in BOOLEAN : RequestResponds(k, ok)
    \/ \E k \in ReqIds : callInference_response(k)
    \/ \E k \in ReqIds : callInference_rendered(k)

SpecInference == InitChat /\ [][NextInference]_vars

\* The steps of a callInference call once it has been made: marked()
\* resolves, the token accessor resolves, the request gets a response or
\* fails, the continuation runs.
InferenceProgress ==
    \E k \in ReqIds :
        \/ callInference_request(k)
        \/ HookResumes(k)
        \/ \E ok \in BOOLEAN : RequestResponds(k, ok)
        \/ callInference_response(k)
        \/ callInference_rendered(k)

FairInference == SpecInference /\ WF_vars(InferenceProgress)

----------------------------------------------------------------------------
\* The upload container of the admin application
\* (DocumentUploadContainer.vue): the claims of the access token, the upload
\* target options and the target handed to the documents store.

\* The payload texts of the access tokens considered.
\* {}
Pay_empty ==
    <<"{", "}">>
\* null
Pay_null ==
    <<"n", "u", "l", "l">>
\* 7
Pay_number ==
    <<"7">>
\* x
Pay_text ==
    <<"x">>
\* {"a":"~~~"}
Pay_tilde ==
    <<"{", "\"", "a", "\"", ":", "\"", "~", "~", "~", "\"", "}">>
\* {"can_write_global":"on"}
Pay_global ==
    <<"{", "\"", "c", "a", "n", "_", "w", "r", "i", "t", "e", "_", "g", "l",
      "o", "b", "a", "l", "\"", ":", "\"", "o", "n", "\"", "}">>
\* {"can_write_shared_domain":1,"allowed_domain_ids":"x, y"}
Pay_domain ==
    <<"{", "\"", "c", "a", "n", "_", "w", "r", "i", "t", "e", "_", "s", "h",
      "a", "r", "e", "d", "_", "d", "o", "m", "a", "i", "n", "\"", ":", "1",
      ",", "\"", "a", "l", "l", "o", "w", "e", "d", "_", "d", "o", "m", "a",
      "i", "n", "_", "i", "d", "s", "\"", ":", "\"", "x", ",", " ", "y",
      "\"", "}">>
\* {"can_write_global":true,"can_write_shared_domain":"Yes","allowed_domain_ids":["x"]}
Pay_both ==
    <<"{", "\"", "c", "a", "n", "_", "w", "r", "i", "t", "e", "_", "g", "l",
      "o", "b", "a", "l", "\"", ":", "t", "r", "u", "e", ",", "\"", "c", "a",
      "n", "_", "w", "r", "i", "t", "e", "_", "s", "h", "a", "r", "e", "d",
      "_", "d", "o", "m", "a", "i", "n", "\"", ":", "\"", "Y", "e", "s",
      "\"", ",", "\"", "a", "l", "l", "o", "w", "e", "d", "_", "d", "o", "m",
      "a", "i", "n", "_", "i", "d", "s", "\"", ":", "[", "\"", "x", "\"",
      "]", "}">>
\* {"can_write_shared_domain":"no","allowed_domain_ids":["x"],"can_write_global":0}
Pay_denied ==
    <<"{", "\"", "c", "a", "n", "_", "w", "r", "i", "t", "e", "_", "s", "h",
      "a", "r", "e", "d", "_", "d", "o", "m", "a", "i", "n", "\"", ":", "\"",
      "n", "o", "\"", ",", "\"", "a", "l", "l", "o", "w", "e", "d", "_", "d",
      "o", "m", "a", "i", "n", "_", "i", "d", "s", "\"", ":", "[", "\"", "x",
      "\"", "]", ",", "\"", "c", "a", "n", "_", "w", "r", "i", "t", "e", "_",
      "g", "l", "o", "b", "a", "l", "\"", ":", "0", "}">>
\* {"can_write_shared_domain":true,"allowed_domain_ids":["global"]}
Pay_named ==
    <<"{", "\"", "c", "a", "n", "_", "w", "r", "i", "t", "e", "_", "s", "h",
      "a", "r", "e", "d", "_", "d", "o", "m", "a", "i", "n", "\"", ":", "t",
      "r", "u", "e", ",", "\"", "a", "l", "l", "o", "w", "e", "d", "_", "d",
      "o", "m", "a", "i", "n", "_", "i", "d", "s", "\"", ":", "[", "\"", "g",
      "l", "o", "b", "a", "l", "\"", "]", "}">>

\* The same texts in base64url without padding, as a token's second part.
Seg_empty ==
    <<"e", "3", "0">>
Seg_null ==
    <<"b", "n", "V", "s", "b", "A">>
Seg_number ==
    <<"N", "w">>
Seg_text ==
    <<"e", "A">>
Seg_tilde ==
    <<"e", "y", "J", "h", "I", "j", "o", "i", "f", "n", "5", "-", "I", "n",
      "0">>
Seg_global ==
    <<"e", "y", "J", "j", "Y", "W", "5", "f", "d", "3", "J", "p", "d", "G",
      "V", "f", "Z", "2", "x", "v", "Y", "m", "F", "s", "I", "j", "o", "i",
      "b", "2", "4", "i", "f", "Q">>
Seg_domain ==
    <<"e", "y", "J", "j", "Y", "W", "5", "f", "d", "3", "J", "p", "d", "G",
      "V", "f", "c", "2", "h", "h", "c", "m", "V", "k", "X", "2", "R", "v",
      "b", "W", "F", "p", "b", "i", "I", "6", "M", "S", "w", "i", "Y", "W",
      "x", "s", "b", "3", "d", "l", "Z", "F", "9", "k", "b", "2", "1", "h",
      "a", "W", "5", "f", "a", "W", "R", "z", "I", "j", "o", "i", "e", "C",
      "w", "g", "e", "S", "J", "9">>
Seg_both ==
    <<"e", "y", "J", "j", "Y", "W", "5", "f", "d", "3", "J", "p", "d", "G",
      "V", "f", "Z", "2", "x", "v", "Y", "m", "F", "s", "I", "j", "p", "0",
      "c", "n", "V", "l", "L", "C", "J", "j", "Y", "W", "5", "f", "d", "3",
      "J", "p", "d", "G", "V", "f", "c", "2", "h", "h", "c", "m", "V", "k",
      "X", "2", "R", "v", "b", "W", "F", "p", "b", "i", "I", "6", "I", "l",
      "l", "l", "c", "y", "I", "s", "I", "m", "F", "s", "b", "G", "9", "3",
      "Z", "W", "R", "f", "Z", "G", "9", "t", "Y", "W", "l", "u", "X", "2",
      "l", "k", "c", "y", "I", "6", "W", "y", "J", "4", "I", "l", "1", "9">>
Seg_denied ==
    <<"e", "y", "J", "j", "Y", "W", "5", "f", "d", "3", "J", "p", "d", "G",
      "V", "f", "c", "2", "h", "h", "c", "m", "V", "k", "X", "2", "R", "v",
      "b", "W", "F", "p", "b", "i", "I", "6", "I", "m", "5", "v", "I", "i",
      "w", "i", "Y", "W", "x", "s", "b", "3", "d", "l", "Z", "F", "9", "k",
      "b", "2", "1", "h", "a", "W", "5", "f", "a", "W", "R", "z", "I", "j",
      "p", "b", "I", "n", "g", "i", "X", "S", "w", "i", "Y", "2", "F", "u",
      "X", "3", "d", "y", "a", "X", "R", "l", "X", "2", "d", "s", "b", "2",
      "J", "h", "b", "C", "I", "6", "M", "H", "0">>
Seg_named ==
    <<"e", "y", "J", "j", "Y", "W", "5", "f", "d", "3", "J", "p", "d", "G",
      "V", "f", "c", "2", "h", "h", "c", "m", "V", "k", "X", "2", "R", "v",
      "b", "W", "F", "p", "b", "i", "I", "6", "d", "H", "J", "1", "Z", "S",
      "w", "i", "Y", "W", "x", "s", "b", "3", "d", "l", "Z", "F", "9", "k",
      "b", "2", "1", "h", "a", "W", "5", "f", "a", "W", "R", "z", "I", "j",
      "p", "b", "I", "m", "d", "s", "b", "2", "J", "h", "b", "C", "J", "d",
      "f", "Q">>

\* A JSON scalar or a missing property.
JNone == [t |-> "none", b |-> FALSE, n |-> 0, s |-> <<>>]
JBool(b) == [t |-> "bool", b |-> b, n |-> 0, s |-> <<>>]
JNum(n) == [t |-> "num", b |-> FALSE, n |-> n, s |-> <<>>]
JStr(str) == [t |-> "str", b |-> FALSE, n |-> 0, s |-> str]

\* What JSON.parse makes of a payload: kind "object" with the three claims
\* the container reads, or a value that is not an object.
JObject(domains, shared, global) ==
    [kind |-> "object", allowed_domain_ids |-> domains,
     can_write_shared_domain |-> shared, can_write_global |-> global]
JNull == [JObject(NoClaim, JNone, JNone) EXCEPT !.kind = "null"]
JScalar == [JObject(NoClaim, JNone, JNone) EXCEPT !.kind = "scalar"]

\* JSON.parse of a payload text: the value, or a SyntaxError (ok = FALSE).
JSONParsePayload(text) ==
    CASE text = Pay_empty -> [ok |-> TRUE, value |-> JObject(NoClaim, JNone, JNone)]
      [] text = Pay_null -> [ok |-> TRUE, value |-> JNull]
      [] text = Pay_number -> [ok |-> TRUE, value |-> JScalar]
      [] text = Pay_tilde -> [ok |-> TRUE, value |-> JObject(NoClaim, JNone, JNone)]
      [] text = Pay_global ->
             [ok |-> TRUE, value |-> JObject(NoClaim, JNone, JStr(<<"o", "n">>))]
      [] text = Pay_domain ->
             [ok |-> TRUE,
              value |-> JObject(StringClaim(<<"x", ",", " ", "y">>), JNum(1), JNone)]
      [] text = Pay_both ->
             [ok |-> TRUE,
              value |-> JObject(ArrayClaim(<<<<"x">>>>), JStr(<<"Y", "e", "s">>),
                                JBool(TRUE))]
      [] text = Pay_denied ->
             [ok |-> TRUE,
              value |-> JObject(ArrayClaim(<<<<"x">>>>), JStr(<<"n", "o">>), JNum(0))]
      [] text = Pay_named ->
             [ok |-> TRUE, value |-> JObject(ArrayClaim(<<S_global>>), JBool(TRUE), JNone)]
      [] OTHER -> [ok |-> FALSE, value |-> JNull]

Base64Chars == UpperSet \cup {LowerOf[ch] : ch \in UpperSet}
                   \cup DigitChars \cup {"+", "/"}

\* .replace(/-/g, '+').replace(/_/g, '/')
normalizeBase64(part) ==
    [i \in DOMAIN part |->
        IF part[i] = "-" THEN "+" ELSE IF part[i] = "_" THEN "/" ELSE part[i]]

\* The inverse replacement, to look a normalized part up in the table.
urlSafe(part) ==
    [i \in DOMAIN part |->
        IF part[i] = "+" THEN "-" ELSE IF part[i] = "/" THEN "_" ELSE part[i]]

\* padEnd(Math.ceil(length / 4) * 4, '=')
padEnd4(str) ==
    str \o [i \in 1..((4 - (Len(str) % 4)) % 4) |-> "="]

\* atob: an InvalidCharacterError (ok = FALSE) unless the text, with up to
\* two trailing '=' removed, is made of base64 characters and its length is
\* not 1 modulo 4; otherwise the decoded text.
atob(padded) ==
    LET n == Len(padded)
        cut == IF n % 4 = 0 /\ n >= 2 /\ padded[n] = "=" /\ padded[n - 1] = "="
               THEN 2
               ELSE IF n % 4 = 0 /\ n >= 1 /\ padded[n] = "=" THEN 1 ELSE 0
        data == SubSeq(padded, 1, n - cut)
        seg == urlSafe(data)
    IN IF (\E i \in DOMAIN data : data[i] \notin Base64Chars) \/ Len(data) % 4 = 1
       THEN [ok |-> FALSE, text |-> <<>>]
       ELSE [ok |-> TRUE,
             text |-> CASE seg = Seg_empty -> Pay_empty
                        [] seg = Seg_null -> Pay_null
                        [] seg = Seg_number -> Pay_number
                        [] seg = Seg_text -> Pay_text
                        [] seg = Seg_tilde -> Pay_tilde
                        [] seg = Seg_global -> Pay_global
                        [] seg = Seg_domain -> Pay_domain
                        [] seg = Seg_both -> Pay_both
                        [] seg = Seg_denied -> Pay_denied
                        [] seg = Seg_named -> Pay_named
                        [] OTHER -> <<"?">>]

RECURSIVE splitOn(_, _)
\* str.split(sep) for a one-character separator
splitOn(str, sep) ==
    IF \E i \in DOMAIN str : str[i] = sep
    THEN LET k == CHOOSE i \in DOMAIN str :
                      /\ str[i] = sep
                      /\ \A j \in 1..(i - 1) : str[j] # sep
         IN <<SubSeq(str, 1, k - 1)>> \o splitOn(SubSeq(str, k + 1, Len(str)), sep)
    ELSE <<str>>

\* The body of decodeJwtClaims' try block: the value it returns, or the
\* exception raised in it.
decodeJwtClaims_try(token) ==
    LET parts == splitOn(token, ".")
    IN IF Len(parts) < 2
       THEN [threw |-> FALSE, value |-> JNull]
       ELSE LET decoded == atob(padEnd4(normalizeBase64(parts[2])))
                parsed == JSONParsePayload(decoded.text)
            IN IF ~decoded.ok \/ ~parsed.ok
               THEN [threw |-> TRUE, value |-> JNull]
               ELSE [threw |-> FALSE, value |-> parsed.value]

\* decodeJwtClaims without its catch.
decodeJwtClaims_noCatch(token) == decodeJwtClaims_try(token)

\* decodeJwtClaims (lines 56-66): the catch turns every exception into null.
decodeJwtClaims(token) ==
    LET r == decodeJwtClaims_try(token)
    IN IF r.threw THEN [threw |-> FALSE, value |-> JNull] ELSE r

\* toBool (lines 37-42)
toBool(value) ==
    CASE value.t = "bool" -> value.b
      [] value.t = "num" -> value.n # 0
      [] value.t = "str" ->
             toLowerCase(value.s) \in {<<"1">>, <<"t", "r", "u", "e">>,
                                       <<"y", "e", "s">>, <<"o", "n">>}
      [] OTHER -> FALSE

MyTenant == <<"m", "y", "_", "t", "e", "n", "a", "n", "t">>

\* onMounted, lines 81-94: the ids of the options built from the claims.
uploadOptions(c) ==
    LET domainIds == toStringList(c.allowed_domain_ids)
    IN <<MyTenant>>
           \o (IF toBool(c.can_write_shared_domain)
               THEN [i \in DOMAIN domainIds |-> sharedScope(domainIds[i])]
               ELSE <<>>)
           \o (IF toBool(c.can_write_global) THEN <<SharedGlobal>> ELSE <<>>)

\* A token with the given second part.
TokenWith(part) == <<"h", ".">> \o part \o <<".", "s">>

\* What getAccessToken resolves to in the container: no token, or a token
\* text, well-formed or not.
MalformedTokens ==
    { <<"h">>,
      TokenWith(<<"!", "!">>),
      TokenWith(<<"a">>),
      TokenWith(Seg_text),
      <<"h", ".">> }
UploadTokens ==
    {Undefined, <<>>} \cup MalformedTokens
        \cup {TokenWith(seg) : seg \in {Seg_empty, Seg_null, Seg_number, Seg_tilde,
                                         Seg_global, Seg_domain, Seg_both,
                                         Seg_denied, Seg_named}}

\* Runtime entry and build-time value of VITE_ENABLE_UPLOAD_SHARING_TARGET.
UploadSettings ==
    { [rt |-> S_True, bt |-> Undefined],
      [rt |-> P_key, bt |-> S_true],
      [rt |-> P_key, bt |-> Undefined],
      [rt |-> S_false, bt |-> S_true] }

\* The definitions of the component, for a container in state u.
uploadSharingFlagOf(u) == flagDefaultFalse(u.cfg.rt, u.cfg.bt)

showUploadTargetSelectorOf(u) == uploadSharingFlagOf(u) /\ Len(u.options) > 1

\* resolveTargetSpaceId with the test of the selector left out.
resolveTargetSpaceIdOf_noFlag(u) ==
    IF u.selected = MyTenant THEN Undefined ELSE u.selected

\* resolveTargetSpaceId (lines 68-72)
resolveTargetSpaceIdOf(u) ==
    IF ~showUploadTargetSelectorOf(u) THEN Undefined
    ELSE IF u.selected = MyTenant THEN Undefined
    ELSE u.selected

uploadSharingFlag == uploadSharingFlagOf(upload)
showUploadTargetSelector == showUploadTargetSelectorOf(upload)
resolveTargetSpaceId == resolveTargetSpaceIdOf(upload)

NoUploadCall == [kind |-> "none", target |-> Undefined]

\* The component is set up on a mounted admin page (lines 14-35).
InitUpload ==
    /\ app = "admin"
    /\ loc = "app"
    /\ path = RootPath
    /\ navBy = "user"
    /\ bootPc = "mounted"
    /\ run = NoRun
    /\ lastRun = NoRun
    /\ trip = 0
    /\ lastActor = "user"
    /\ session = 1
    /\ issued = 1
    /\ expired = FALSE
    /\ idpSession = TRUE
    /\ clientCfg = NoSettings
    /\ tokenAtCreate = 1
    /\ PageIdle
    /\ scopeCfg = [rt |-> P_scope, bt |-> Undefined]
    /\ storage = Absent
    /\ claims = NullClaims
    /\ StoreFresh
    /\ call = NoFn /\ ret = NoRet /\ prev = NoPrev
    /\ upload \in [pc : {"setup"}, cfg : UploadSettings, token : UploadTokens,
                    decoded : {[threw |-> FALSE, value |-> JNull]},
                    options : {<<MyTenant>>}, selected : {MyTenant},
                    last : {NoUploadCall}]

uploadFixed == <<quietVars, call, ret, prev>>

\* onMounted (lines 74-76): returns at once without the flag, otherwise
\* awaits the access token.
onMounted ==
    /\ upload.pc = "setup"
    /\ upload' = [upload EXCEPT !.pc = IF uploadSharingFlag THEN "token" ELSE "mounted"]
    /\ UNCHANGED uploadFixed

\* onMounted resumes with the token (lines 77-94).
onMounted_resumes ==
    /\ upload.pc = "token"
    /\ IF ~Truthy(upload.token)
       THEN upload' = [upload EXCEPT !.pc = "mounted"]
       ELSE LET d == decodeJwtClaims(upload.token)
            IN upload' =
                 [upload EXCEPT
                    !.pc = IF d.threw THEN "failed" ELSE "mounted",
                    !.decoded = d,
                    !.options = IF d.threw \/ d.value.kind = "null"
                                THEN @ ELSE uploadOptions(d.value)]
    /\ UNCHANGED uploadFixed

\* The user picks an option of the target select, which is rendered while
\* showUploadTargetSelector holds (template lines 249-255).
selectTarget(id) ==
    /\ upload.pc # "none"
    /\ showUploadTargetSelector
    /\ id \in Ids(upload.options)
    /\ id # upload.selected
    /\ upload' = [upload EXCEPT !.selected = id]
    /\ UNCHANGED uploadFixed

\* uploadDocuments with files of allowed types, handleConfluenceUpload and
\* handleSitemapUpload hand resolveTargetSpaceId() to the store (lines 127,
\* 166, 183).
startUpload(kind) ==
    /\ upload.pc # "none"
    /\ upload' = [upload EXCEPT !.last = [kind |-> kind,
                                          target |-> resolveTargetSpaceId]]
    /\ UNCHANGED uploadFixed

UploadKinds == {"file", "confluence", "sitemap"}

\* The ids a select element may hold, and the option lists the claim sets
\* considered produce.
UploadTargetIds ==
    {MyTenant, SharedGlobal, sharedScope(<<"x">>), sharedScope(<<"y">>)}
ClaimPayloads ==
    {Pay_empty, Pay_number, Pay_tilde, Pay_global, Pay_domain, Pay_both,
     Pay_denied, Pay_named}
UploadOptionLists ==
    {uploadOptions(JSONParsePayload(text).value) : text \in ClaimPayloads}

NextUpload ==
    \/ onMounted
    \/ onMounted_resumes
    \/ \E id \in UploadTargetIds : selectTarget(id)
    \/ \E kind \in UploadKinds : startUpload(kind)

SpecUpload == InitUpload /\ [][NextUpload]_vars

----------------------------------------------------------------------------
\* The base URL of the API clients (document.api.ts 21-24, chat.api.ts 18-21).

S_api == <<"/", "a", "p", "i">>

RECURSIVE stripTrailingSlashes(_)
\* str.replace(/\/+$/, '')
stripTrailingSlashes(str) ==
    IF str # <<>> /\ str[Len(str)] = "/"
    THEN stripTrailingSlashes(SubSeq(str, 1, Len(str) - 1))
    ELSE str

\* /suffix$/.test(str) for a literal suffix
endsWith(str, suffix) ==
    /\ Len(str) >= Len(suffix)
    /\ SubSeq(str, Len(str) - Len(suffix) + 1, Len(str)) = suffix

\* normalizedBaseUrl = rawBaseUrl?.replace(/\/+$/, '') || ''
normalizedBaseUrl(rawBaseUrl) ==
    IF rawBaseUrl = Undefined THEN <<>> ELSE stripTrailingSlashes(rawBaseUrl)

\* The base URL with '/api' appended whether or not it is there already.
apiBaseUrl_always(rawBaseUrl) == normalizedBaseUrl(rawBaseUrl) \o S_api

\* apiBaseUrl = /\/api$/.test(normalizedBaseUrl) ? normalizedBaseUrl
\*                                               : `${normalizedBaseUrl}/api`
apiBaseUrl(rawBaseUrl) ==
    IF endsWith(normalizedBaseUrl(rawBaseUrl), S_api)
    THEN normalizedBaseUrl(rawBaseUrl)
    ELSE normalizedBaseUrl(rawBaseUrl) \o S_api

\* Pieces per raw base URL.
MaxPieces == 3

RECURSIVE Flatten(_)
Flatten(seqs) == IF seqs = <<>> THEN <<>> ELSE Head(seqs) \o Flatten(Tail(seqs))

\* Raw base URLs: undefined, or up to MaxPieces pieces put together.
UrlPieces == {<<"h">>, <<"/">>, S_api, <<"a", "p", "i">>}
RawBaseUrls == {Undefined} \cup {Flatten(ps) : ps \in SeqsUpTo(UrlPieces, MaxPieces)}

InitBaseUrl ==
    /\ QuietPage
    /\ call \in {[op |-> "apiBaseUrl", args |-> url] : url \in RawBaseUrls}
    /\ ret = NoRet

\* The module computes apiBaseUrl from rawBaseUrl.
apiBaseUrl_returns ==
    /\ call.op = "apiBaseUrl"
    /\ ~ret.done
    /\ ret' = Returned(apiBaseUrl(call.args))
    /\ UNCHANGED <<quietVars, call, prev, upload>>

\* The result is configured as the base URL and normalized again.
apiBaseUrl_again ==
    /\ call.op = "apiBaseUrl"
    /\ ret.done
    /\ call.args # ret.value
    /\ call' = [call EXCEPT !.args = ret.value]
    /\ ret' = Returned(apiBaseUrl(ret.value))
    /\ UNCHANGED <<quietVars, prev, upload>>

NextBaseUrl == apiBaseUrl_returns \/ apiBaseUrl_again

SpecBaseUrl == InitBaseUrl /\ [][NextBaseUrl]_vars

----------------------------------------------------------------------------
\* The placeholder injector (env.sh): the VITE_ variables of the environment
\* are substituted into the .js and .css files of the target directory and
\* written to config.js.

K_logo == <<"V", "I", "T", "E", "_", "U", "I", "_", "L", "O", "G", "O", "_", "P", "A", "T", "H">>
K_light == K_logo \o <<"_", "L", "I", "G", "H", "T">>
K_bot == <<"V", "I", "T", "E", "_", "B", "O", "T", "_", "N", "A", "M", "E">>

\* Variables per environment.
MaxVars == 2

InjectKeys == {K_logo, K_light, K_bot}
InjectValues ==
    { <<"/", "a">>,
      <<"a", "|", "b">>,
      <<"\\", "&">>,
      <<"a", " ", "=", "b">>,
      <<"x">> \o K_bot }

\* `env`: one line KEY=value per variable, in the order of the environment
\* block; the VITE_ variables chosen and one other variable.
EnvLine(key, value) == key \o <<"=">> \o value
HomeLine == <<"H", "O", "M", "E", "=", "/", "r">>
Environments ==
    { [i \in 1..(Len(ks) + 1) |->
          IF i <= Len(ks) THEN EnvLine(ks[i], vs[i]) ELSE HomeLine] :
        <<ks, vs>> \in
            { <<k, v>> \in SeqsUpTo(InjectKeys, MaxVars) \X SeqsUpTo(InjectValues, MaxVars) :
                /\ Len(k) = Len(v)
                /\ \A i, j \in DOMAIN k : i # j => k[i] # k[j] } }

\* str starts with prefix
startsWith(str, prefix) ==
    Len(str) >= Len(prefix) /\ SubSeq(str, 1, Len(prefix)) = prefix

\* grep '^VITE_'
grepVite(lines) == SelectSeq(lines, LAMBDA line : startsWith(line, VitePrefix))

\* The position of the first '=' of a line (0 if there is none).
firstEq(line) ==
    IF \E i \in DOMAIN line : line[i] = "="
    THEN CHOOSE i \in DOMAIN line :
             line[i] = "=" /\ \A j \in 1..(i - 1) : line[j] # "="
    ELSE 0

\* key="${line%%=*}"
lineKey(line) ==
    IF firstEq(line) = 0 THEN line ELSE SubSeq(line, 1, firstEq(line) - 1)

\* value="${line#*=}"
lineValue(line) ==
    IF firstEq(line) = 0 THEN line ELSE SubSeq(line, firstEq(line) + 1, Len(line))

RECURSIVE escapeChars(_, _)
\* sed -e 's/[set]/\\&/g': a backslash before every character of the set
escapeChars(str, set) ==
    IF str = <<>> THEN <<>>
    ELSE (IF Head(str) \in set THEN <<"\\", Head(str)>> ELSE <<Head(str)>>)
             \o escapeChars(Tail(str), set)

\* The value passed to sed without escaping.
escapedValue_raw(value) == value

\* escaped_value=$(printf '%s' "$value" | sed -e 's/[\\&|]/\\&/g')
escapedValue(value) == escapeChars(value, {"\\", "&", "|"})

RECURSIVE nextDelim(_, _)
\* The position of the next unescaped '|' of a sed script at or after i
\* (0 if there is none).
nextDelim(script, i) ==
    IF i > Len(script) THEN 0
    ELSE IF script[i] = "\\" THEN nextDelim(script, i + 2)
    ELSE IF script[i] = "|" THEN i
    ELSE nextDelim(script, i + 1)

\* sed parses "s|regex|replacement|flags"; the script is rejected unless the
\* flags are exactly "g".
parseSubstitute(script) ==
    LET a == nextDelim(script, 3)
        b == IF a = 0 THEN 0 ELSE nextDelim(script, a + 1)
    IN IF a = 0 \/ b = 0 \/ SubSeq(script, b + 1, Len(script)) # <<"g">>
       THEN [ok |-> FALSE, regex |-> <<>>, replacement |-> <<>>]
       ELSE [ok |-> TRUE, regex |-> SubSeq(script, 3, a - 1),
             replacement |-> SubSeq(script, a + 1, b - 1)]

RECURSIVE expandReplacement(_, _)
\* The text a replacement stands for: '\c' is the character c ('\n' a
\* newline), an unescaped '&' is the matched text.
expandReplacement(replacement, matched) ==
    IF replacement = <<>> THEN <<>>
    ELSE IF Head(replacement) = "\\" /\ Len(replacement) >= 2
    THEN <<IF replacement[2] = "n" THEN "\n" ELSE replacement[2]>>
             \o expandReplacement(SubSeq(replacement, 3, Len(replacement)), matched)
    ELSE IF Head(replacement) = "&"
    THEN matched \o expandReplacement(Tail(replacement), matched)
    ELSE <<Head(replacement)>> \o expandReplacement(Tail(replacement), matched)

RECURSIVE substituteAll(_, _, _)
\* s|regex|...|g for a regex of ordinary characters: every match, left to
\* right, gives way to the text; the text put in is not scanned again.
substituteAll(text, regex, by) ==
    IF text = <<>> \/ regex = <<>> THEN text
    ELSE IF startsWith(text, regex)
    THEN by \o substituteAll(SubSeq(text, Len(regex) + 1, Len(text)), regex, by)
    ELSE <<Head(text)>> \o substituteAll(Tail(text), regex, by)

\* sed -i "s|${key}|${escaped_value}|g" file: the new text of the file (the
\* file is left as it is when sed rejects the script).
sedInPlace(text, key, escaped) ==
    LET cmd == parseSubstitute(<<"s", "|">> \o key \o <<"|">> \o escaped \o <<"|", "g">>)
    IN IF cmd.ok
       THEN substituteAll(text, cmd.regex, expandReplacement(cmd.replacement, cmd.regex))
       ELSE text

\* find ... \( -name '*.js' -o -name '*.css' \)
isStaticFile(name) ==
    endsWith(name, <<".", "j", "s">>) \/ endsWith(name, <<".", "c", "s", "s">>)

RECURSIVE injectLines(_, _)
\* The first loop (lines 11-20): one sed pass over every .js and .css file
\* per VITE_ line, in the order of the lines.
injectLines(lines, dir) ==
    IF lines = <<>> THEN dir
    ELSE injectLines(Tail(lines),
             [name \in DOMAIN dir |->
                 IF isStaticFile(name)
                 THEN sedInPlace(dir[name], lineKey(Head(lines)),
                                 escapedValue(lineValue(Head(lines))))
                 ELSE dir[name]])

\* escaped_json_value: sed -e 's/\\/\\\\/g' -e 's/"/\\"/g'
escapedJsonValue(value) == escapeChars(escapeChars(value, {"\\"}), {"\""})

RECURSIVE configLines(_)
\* The second loop (lines 25-30): one line per VITE_ variable.
configLines(lines) ==
    IF lines = <<>> THEN <<>>
    ELSE <<" ", " ", "\"">> \o lineKey(Head(lines)) \o <<"\"", ":", " ", "\"">>
             \o escapedJsonValue(lineValue(Head(lines))) \o <<"\"", ",", "\n">>
             \o configLines(Tail(lines))

\* The text written to config.js (lines 24-31).
configText(lines) ==
    <<"w", "i", "n", "d", "o", "w", ".", "c", "o", "n", "f", "i", "g", " ", "=", " ", "{", "\n">> \o configLines(lines) \o <<"}", ";", "\n">>

ConfigFile == <<"c", "o", "n", "f", "i", "g", ".", "j", "s">>

\* One run of env.sh in an environment on a target directory.
envsh(environment, dir) ==
    LET lines == grepVite(environment)
        injected == injectLines(lines, dir)
    IN [name \in DOMAIN dir \cup {ConfigFile} |->
           IF name = ConfigFile THEN configText(lines) ELSE injected[name]]

\* The built files: a script, a style sheet and a page.
AppJs == <<"a", ".", "j", "s">>
StyleCss == <<"s", ".", "c", "s", "s">>
IndexHtml == <<"i", ".", "h", "t", "m", "l">>
AppTexts ==
    { <<"u", "(">> \o K_light \o <<")", ";">> \o K_logo \o <<";">> \o K_bot,
      K_bot \o <<"&">> \o K_logo }
TargetDirs ==
    { [name \in {AppJs, StyleCss, IndexHtml} |->
          IF name = AppJs THEN text
          ELSE IF name = StyleCss THEN <<"b", "{">> \o K_logo \o <<"}">>
          ELSE K_bot] : text \in AppTexts }

InitInject ==
    /\ QuietPage
    /\ call \in {[op |-> "env.sh",
                   args |-> [environment |-> e, built |-> d, dir |-> d, runs |-> 0]] :
                     e \in Environments, d \in TargetDirs}
    /\ ret = NoRet

\* The container starts: env.sh runs on the built files.
envsh_runs ==
    /\ call.op = "env.sh"
    /\ ~ret.done
    /\ call' = [call EXCEPT !.args.runs = 1]
    /\ ret' = Returned(envsh(call.args.environment, call.args.dir))
    /\ UNCHANGED <<quietVars, prev, upload>>

\* The container restarts with the same environment: env.sh runs on the
\* files the first run left.
envsh_runsAgain ==
    /\ call.op = "env.sh"
    /\ ret.done
    /\ call.args.runs = 1
    /\ call' = [call EXCEPT !.args.runs = 2, !.args.dir = ret.value]
    /\ ret' = Returned(envsh(call.args.environment, ret.value))
    /\ UNCHANGED <<quietVars, prev, upload>>

NextInject == envsh_runs \/ envsh_runsAgain

SpecInject == InitInject /\ [][NextInject]_vars

----------------------------------------------------------------------------
\* Scope refreshes and logout on the chat page: initiateConversation, a
\* component's updateAvailableScopes and logout, with their continuations.

NextRefresh ==
    \/ \E u \in UpdIds : initiateConversation(u)
    \/ \E u \in UpdIds : UpdateAvailableScopes(u)
    \/ \E u \in UpdIds : UpdateAvailableScopes_token(u)
    \/ \E u \in UpdIds : UpdateAvailableScopes_claims(u)
    \/ logout_call
    \/ logout_authService
    \/ \E u \in UpdIds : logout_resumes(u)

SpecRefresh == InitChat /\ [][NextRefresh]_vars

----------------------------------------------------------------------------
\* DocumentAPI.loadSitemap (document.api.ts 116-166): the payload is built and
\* validated, then posted.

S_astro == <<"a", "s", "t", "r", "o">>
S_docusaurus == <<"d", "o", "c", "u", "s", "a", "u", "r", "u", "s">>
S_generic == <<"g", "e", "n", "e", "r", "i", "c">>
allowedParsers == {S_docusaurus, S_astro, S_generic}

RECURSIVE trimWhitespace(_)
\* String.prototype.trim, for texts with spaces and line breaks
trimWhitespace(str) ==
    IF Len(str) > 0 /\ str[1] \in {" ", "\n"} THEN trimWhitespace(Tail(str))
    ELSE IF Len(str) > 0 /\ str[Len(str)] \in {" ", "\n"}
    THEN trimWhitespace(SubSeq(str, 1, Len(str) - 1))
    ELSE str

\* config.filterUrls.split('\n').map(url => url.trim()).filter(url => url.length > 0)
filterUrlsArray(filterUrls) ==
    LET lines == splitOn(filterUrls, "\n")
    IN SelectSeq([i \in DOMAIN lines |-> trimWhitespace(lines[i])],
                 LAMBDA url : Len(url) > 0)

KeyValue(key, value) == [key |-> key, value |-> value]
SitemapError(message) == [isAxiosError |-> FALSE, message |-> message]
Built(payload) == [threw |-> FALSE, error |-> SitemapError("none"), payload |-> payload]
Thrown(message) == [threw |-> TRUE, error |-> SitemapError(message), payload |-> <<>>]

\* Lines 126-131: the parser item, or the error thrown for a parser that is
\* not allowed.
parserItem(config) ==
    IF ~Truthy(config.parser) THEN Built(<<>>)
    ELSE IF config.parser \notin allowedParsers
    THEN Thrown("Unsupported sitemap parser")
    ELSE Built(<<KeyValue("sitemap_parser", config.parser)>>)

\* Lines 134-136
continueItem(config) ==
    IF config.continueOnFailure.t = "bool"
    THEN <<KeyValue("continue_on_failure",
                    IF config.continueOnFailure.b THEN S_true ELSE S_false)>>
    ELSE <<>>

\* Lines 139-149
filterItem(config) ==
    IF Truthy(config.filterUrls) /\ trimWhitespace(config.filterUrls) # <<>>
          /\ Len(filterUrlsArray(config.filterUrls)) > 0
    THEN <<KeyValue("filter_urls", JSONStringify(filterUrlsArray(config.filterUrls)))>>
    ELSE <<>>

\* The header item pushed without JSON.parse.
headerItem_unchecked(config) ==
    IF Truthy(config.headerTemplate) /\ trimWhitespace(config.headerTemplate) # <<>>
    THEN Built(<<KeyValue("header_template", config.headerTemplate)>>)
    ELSE Built(<<>>)

\* Lines 152-160: the header item, or the error thrown for a template
\* JSON.parse rejects.
headerItem(config) ==
    IF Truthy(config.headerTemplate) /\ trimWhitespace(config.headerTemplate) # <<>>
    THEN IF JSONParsePayload(config.headerTemplate).ok
         THEN Built(<<KeyValue("header_template", config.headerTemplate)>>)
         ELSE Thrown("Header template must be valid JSON format")
    ELSE Built(<<>>)

\* The try block up to the request (lines 119-160): the payload, or the
\* error thrown.
sitemapPayload(config) ==
    IF parserItem(config).threw THEN parserItem(config)
    ELSE IF headerItem(config).threw THEN headerItem(config)
    ELSE Built(<<KeyValue("web_path", config.webPath)>>
                   \o parserItem(config).payload
                   \o continueItem(config)
                   \o filterItem(config)
                   \o headerItem(config).payload)

\* The configurations a caller hands to loadSitemap.
SitemapConfigs ==
    [name : {<<"n">>},
     webPath : {<<"w">>},
     parser : {Undefined, <<>>, S_astro, S_generic, <<"x", "m", "l">>},
     continueOnFailure : {JBool(TRUE), JBool(FALSE), JNone},
     filterUrls : {<<>>, <<" ", "\n", " ">>, <<"u">>, <<"u", "\n", "\n", " ", "v", " ">>},
     headerTemplate : {<<>>, <<" ">>, Pay_empty, Pay_number, Pay_text}]

\* loadSitemap(config) is called: a validation error is caught and handed to
\* handleError at once; otherwise apiClient.post is called on slot i (lines
\* 163-165).
loadSitemap_call(i, config) ==
    /\ call = NoFn
    /\ app = "admin"
    /\ req[i].pc = "idle"
    /\ LET built == sitemapPayload(config)
       IN IF built.threw
          THEN /\ call' = [op |-> "loadSitemap", args |-> <<i, config, <<>>>>]
               /\ ret' = Returned([response |-> "none", requests |-> req[i].sends,
                                   result |-> handleError(built.error)])
               /\ UNCHANGED <<req, callVars>>
          ELSE /\ call' = [op |-> "loadSitemap",
                           args |-> <<i, config,
                                      <<[url |-> "/upload_source",
                                         params |-> [source_type |-> "sitemap",
                                                     name |-> config.name],
                                         data |-> built.payload]>>>>]
               /\ apiClient_request(i, "admin")
               /\ UNCHANGED ret
    /\ UNCHANGED <<bootVars, authVars, clientCfg, tokenAtCreate>>
    /\ UNCHANGED <<chatEnv, storeVars, prev, upload>>

InitSitemap == InitApi /\ app = "admin"

NextSitemap ==
    \/ \E i \in ReqIds : \E config \in SitemapConfigs : loadSitemap_call(i, config)
    \/ \E i \in ReqIds : HookResumes(i)
    \/ \E i \in ReqIds : \E ok \in BOOLEAN : RequestResponds(i, ok)
    \/ ApiMethodReturns

SpecSitemap == InitSitemap /\ [][NextSitemap]_vars

----------------------------------------------------------------------------
\* Claims about the bootstrap.

CallbackFailureRedirectsToRoot ==
    (lastRun.callback /\ ~lastRun.cbOk) =>
        /\ lastRun.root
        /\ session = NoToken
        /\ navBy = "app" => (loc = "app" /\ path = RootPath)

\* C3 witness: the page was just reloaded at the root path by a run whose
\* token exchange failed.
CallbackFailedAndRedirected ==
    /\ lastRun.callback /\ ~lastRun.cbOk /\ lastRun.path = CallbackPath
    /\ navBy = "app" /\ bootPc = "getUser" /\ path = RootPath

\* A run of setupApp was just ended by a failed token exchange.
CallbackJustFailed ==
    lastRun.callback /\ ~lastRun.cbOk /\ navBy = "app" /\ bootPc = "getUser"

\* C4: no retry loop is auto-triggered after a failed token exchange: no
\* behaviour cycles forever through login, callback failure and the redirect
\* to root unless the user keeps acting.
NoAutoRetryLoop ==
    ([]<>(lastActor = "user")) \/ (<>[](~CallbackJustFailed))

\* The three outcomes of a completed setupApp run.
Outcome_login(r) ==
    /\ r.token = NoToken /\ r.path # CallbackPath
    /\ r.login /\ ~r.callback /\ ~r.root /\ ~r.mounted

Outcome_callback(r) ==
    /\ r.token = NoToken /\ r.path = CallbackPath
    /\ r.callback /\ r.root /\ ~r.login /\ ~r.mounted

Outcome_mounted(r) ==
    /\ r.token # NoToken
    /\ r.mounted /\ ~r.login /\ ~r.callback /\ ~r.root

\* C5: every completed run of the admin-app bootstrap has exactly one of the
\* three outcomes (login without mount; handleCallback, then root, without
\* mount; mount without login or handleCallback), and handleCallback is
\* never called on a path other than the callback path.
BootstrapOutcomes ==
    app = "admin" =>
        /\ lastRun # NoRun =>
               \/ Outcome_login(lastRun)
               \/ Outcome_callback(lastRun)
               \/ Outcome_mounted(lastRun)
        /\ run.callback => run.path = CallbackPath
        /\ run.login => (run.path # CallbackPath /\ run.token = NoToken)
        /\ run.mounted => run.token # NoToken

\* C5 witness: an admin-app run called handleCallback and went to root.
AdminCallbackOutcome ==
    app = "admin" /\ Outcome_callback(lastRun) /\ navBy = "app"

----------------------------------------------------------------------------
\* Claims about the access-token accessor and the API clients.

\* The callers whose getAccessToken call is waiting for the shared renewal.
Joined == {c \in CallerIds : tokCall[c].st = "joined"}

\* The callers the last renewal resolved and that have not yet resumed.
Resolved == {c \in batch.members : tokCall[c].st = "ready"}

Sent == {i \in ReqIds : req[i].pc \in {"sent", "ok", "err"}}

\* C8: the Authorization bearer header of every request sent is built from
\* the value getAccessToken returned to the hook of that very request.
BearerFromThisRequestsToken ==
    \A i \in Sent :
        /\ tokCall[i].st = "used"
        /\ tokCall[i].val # NoToken => req[i].config.bearer = tokCall[i].val
        /\ req[i].config.bearer # NoToken => req[i].config.bearer = tokCall[i].val

\* C8 witness: a request carries a renewed token, not the one the session
\* had when the client was created, while an earlier token was attached to
\* another request.
SentWithRenewedToken ==
    \E i, j \in Sent :
        /\ req[i].config.bearer # NoToken
        /\ tokenAtCreate # NoToken
        /\ req[i].config.bearer # tokenAtCreate
        /\ req[j].config.bearer = tokenAtCreate

\* C9: on the chat client bearer auth dominates basic auth: a request for
\* which getAccessToken gave a token carries Bearer <token> and no basic-auth
\* credentials; credentials are attached only when there is no token, the
\* chat-auth flag resolves to true and username and password are not absent.
BearerDominatesBasic ==
    \A i \in Sent :
        req[i].client = "chat" =>
            /\ tokCall[i].val # NoToken =>
                   Authorization(req[i].config) = <<"Bearer", tokCall[i].val>>
            /\ req[i].config.auth =>
                   /\ tokCall[i].val = NoToken
                   /\ toLowerCase(String(pickValue(<<clientCfg.flagRt, clientCfg.flagBt>>))) = S_true
                   /\ ~isPlaceholder(pickValue(<<clientCfg.userRt, clientCfg.userBt>>))
                   /\ ~isPlaceholder(pickValue(<<clientCfg.passRt, clientCfg.passBt>>))

\* C9 witness: the chat client was built with basic-auth credentials, and
\* one request carries the bearer token while another carries the
\* credentials.
BearerAndBasicRequests ==
    \E i, j \in Sent :
        /\ req[i].client = "chat" /\ req[j].client = "chat"
        /\ chatDefaultsAuth(clientCfg)
        /\ Authorization(req[i].config)[1] = "Bearer"
        /\ Authorization(req[j].config)[1] = "Basic"

\* The requests whose hook has resumed.
Hooked == {i \in ReqIds : req[i].pc # "idle" /\ tokCall[i].st = "used"}

\* C10: a request for which getAccessToken produced no token is still sent,
\* exactly once, and carries no bearer header.
SentWithoutToken ==
    \A i \in Hooked :
        tokCall[i].val = NoToken =>
            /\ i \in Sent
            /\ req[i].sends = 1
            /\ req[i].config.bearer = NoToken
            /\ Authorization(req[i].config)[1] # "Bearer"

\* C10 witness: after a failed renewal of an expired token, a request has
\* been sent once without a token and without an Authorization header.
RequestSentWithoutToken ==
    \E i \in Sent :
        /\ tokCall[i].val = NoToken
        /\ req[i].sends = 1
        /\ Authorization(req[i].config)[1] = "none"
        /\ session # NoToken /\ expired

----------------------------------------------------------------------------
\* Claims about the chat store.

\* C6: in every reachable state of the chat store the selected scope ids are
\* a subset of the ids of the available scopes, and no callInference call has
\* handed a selection holding an id that was not available to the chat
\* request.
SelectionWithinAvailable ==
    /\ Ids(selectedScopeIds) \subseteq Ids(availableScopes)
    /\ \A k \in ReqIds : ~inf[k].stale

\* The step in which logout returns to its caller.
LogoutCompletes == logoutPc = "refresh" /\ logoutPc' = "done"

EmptyArray == JSONStringify(<<>>)

\* C7, as stated: whenever a logout that was called with a non-empty selection
\* stored completes, the selection is empty and the storage key is absent or
\* holds the empty array.
LogoutLeavesNoSelection ==
    [][(LogoutCompletes /\ logoutLog.stored)
           => /\ selectedScopeIds' = <<>>
              /\ storage' \in {Absent, EmptyArray}]_vars

\* C7, amended: whenever logout completes, the selection holds only ids that
\* toggleScope added after logout cleared the selection, so it is empty if
\* none was added; the storage key is absent when the scope selector is
\* disabled and otherwise holds the array of exactly that selection.
LogoutLeavesOnlyLaterToggles ==
    [][LogoutCompletes
           => /\ Ids(selectedScopeIds') \subseteq logoutLog.toggled
              /\ storage' = IF isScopeSelectorEnabled
                            THEN JSONStringify(selectedScopeIds')
                            ELSE Absent
              /\ logoutLog.toggled = {}
                     => /\ selectedScopeIds' = <<>>
                        /\ storage' \in {Absent, EmptyArray}]_vars

\* A logout called with a non-empty selection stored has completed with no
\* toggleScope in between: the selection is empty and the key holds the
\* empty array.
LogoutClearedStoredSelection ==
    /\ logoutPc = "done"
    /\ logoutLog.stored
    /\ logoutLog.toggled = {}
    /\ selectedScopeIds = <<>>
    /\ storage = EmptyArray

----------------------------------------------------------------------------
\* Claims about the resolution of settings.

\* A candidate is absent: undefined, the empty string, or VITE_ followed by
\* one or more upper-case letters, digits or underscores and nothing else.
IsAbsent(v) ==
    \/ v = Undefined
    \/ v = <<>>
    \/ /\ Len(v) >= 6
       /\ <<v[1], v[2], v[3], v[4], v[5]>> = <<"V", "I", "T", "E", "_">>
       /\ \A i \in 6..Len(v) :
              v[i] \in UpperSet \cup DigitChars \cup {"_"}

\* C11: pickValue returns the first candidate that is not absent, and
\* undefined if and only if every candidate is absent.
PickValueReturnsFirstPresent ==
    (call.op = "pickValue" /\ ret.done) =>
        LET present == {i \in DOMAIN call.args : ~IsAbsent(call.args[i])}
        IN /\ present # {} =>
                  \E i \in present : /\ \A j \in present : i <= j
                                     /\ ret.value = call.args[i]
           /\ (ret.value = Undefined) <=> (present = {})

\* pickValue(undefined, "VITE_API_URL", "https://x") has returned
\* "https://x".
PickValueSkippedPlaceholder ==
    /\ call = [op |-> "pickValue", args |-> <<Undefined, P_api, S_https_x>>]
    /\ ret = Returned(S_https_x)

\* A literal VITE_<UPPER_SNAKE> token.
IsToken(v) == IsAbsent(v) /\ v # Undefined /\ v # <<>>

\* The arguments with every placeholder token taken away.
WithoutTokens(a) == [k \in DOMAIN a |-> IF IsToken(a[k]) THEN Undefined ELSE a[k]]

\* C12: every consumer treats an unresolved placeholder token as an absent
\* value: the setting it resolves is the one it resolves when the entries
\* holding a token are not set at all.
PlaceholderTreatedAsAbsent ==
    (call.op \in SettingNames /\ ret.done) =>
        ret.value = resolveSetting(call.op, WithoutTokens(call.args))

\* The entries of a setting in the order of their precedence: the runtime
\* entry and the build-time value of its key, then those of its second key.
Chain(name) ==
    IF name \in TwoKeySettings THEN <<"rt", "bt", "rt2", "bt2">> ELSE <<"rt", "bt">>

\* The arguments with every entry below the first non-absent one taken away.
WinnerOnly(name, a) ==
    LET chain == Chain(name)
        present == {i \in DOMAIN chain : ~IsAbsent(a[chain[i]])}
        first == IF present = {} THEN Len(chain) + 1
                 ELSE CHOOSE i \in present : \A j \in present : i <= j
    IN [k \in DOMAIN a |->
           IF \E i \in DOMAIN chain : chain[i] = k /\ i > first
           THEN Undefined ELSE a[k]]

\* C13: every setting is resolved with the same precedence, runtime entry
\* first, build-time value second, default last: the first non-absent entry
\* decides the setting, whatever the entries below it hold.
RuntimeThenBuildThenDefault ==
    (call.op \in SettingNames /\ ret.done) =>
        ret.value = resolveSetting(call.op, WinnerOnly(call.op, call.args))

----------------------------------------------------------------------------
\* Claims about the scope selection.

\* The ids of a list that belong to a set, in the order of the list.
RECURSIVE Pruned(_, _)
Pruned(list, allowed) ==
    IF list = <<>> THEN <<>>
    ELSE (IF Head(list) \in allowed THEN <<Head(list)>> ELSE <<>>)
             \o Pruned(Tail(list), allowed)

\* The list of ids a stored value decodes to.
Decoded(raw) == restoreSelectedScopes(TRUE, raw).selected

\* C14: with the selector enabled, normalizeSelectedScopes leaves exactly the
\* selected ids that are available, in their original order, and the value
\* it writes to local storage is that pruned list.
NormalizePrunesAndPersists ==
    (call.op = "normalizeSelectedScopes" /\ ret.done /\ call.args.enabled) =>
        /\ ret.value.selected =
               Pruned(call.args.selected, Ids(call.args.available))
        /\ ret.value.stored # Absent
        /\ Decoded(ret.value.stored) = ret.value.selected

NormalizePrunedExample ==
    /\ call = [op |-> "normalizeSelectedScopes",
               args |-> [enabled |-> TRUE, selected |-> <<ScopeA, ScopeC>>,
                         available |-> <<ScopeA, ScopeB>>]]
    /\ ret.done
    /\ ret.value.selected = <<ScopeA>>
    /\ Decoded(ret.value.stored) = <<ScopeA>>

\* A step of the store other than initiateConversation, updateAvailableScopes,
\* logout and callInference: a toggleScope or a selectAllScopes.
SelectionStep ==
    /\ conversationId' = conversationId
    /\ upd' = upd
    /\ logoutPc' = logoutPc
    /\ inf' = inf

\* C15: with the scope-selector flag disabled, once initiateConversation has
\* run the selection is empty and the storage key is absent whatever
\* toggleScope, selectAllScopes, updateAvailableScopes and logout do later;
\* toggleScope and selectAllScopes change nothing, and callInference passes
\* no scope selection.
DisabledSelectorHoldsNothing ==
    /\ [](~isScopeSelectorEnabled =>
            /\ conversationId # 0 =>
                   selectedScopeIds = <<>> /\ storage = Absent
            /\ \A k \in ReqIds : inf[k].passed = Undefined)
    /\ [][(~isScopeSelectorEnabled /\ SelectionStep) =>
             UNCHANGED <<selectedScopeIds, storage, availableScopes>>]_vars

DisabledSelectorAfterLogoutAndPrompt ==
    /\ ~isScopeSelectorEnabled
    /\ conversationId # 0
    /\ logoutPc = "done"
    /\ \E k \in ReqIds : inf[k].pc = "request"
    /\ selectedScopeIds = <<>>
    /\ storage = Absent

\* No updateAvailableScopes call is in progress.
ScopesSettled == \A u \in UpdIds : upd[u] = NoUpd

Posted(k) ==
    ChatAPI_callInference(<<prepareInferenceRequest(inf[k].n), inf[k].passed>>)

\* C17: the POST /chat/{session_id} sent by callInference carries exactly the
\* selected scope ids when the selector is enabled and the selection is not
\* empty, and no scope otherwise.
ChatRequestCarriesScope ==
    \A k \in ReqIds :
        inf[k].pc \in {"request", "render"} =>
            inf[k].passed = ScopeOf(Posted(k))

----------------------------------------------------------------------------
\* Claims about the chat application.

\* C18: chat-app is accessible without login: a chat-app bootstrap that finds
\* no session on a path other than the callback path goes on to mount the
\* application and initiates no login redirect.
ChatAppMountsWithoutLogin ==
    (app = "chat" /\ run.got /\ run.token = NoToken /\ run.path # CallbackPath) =>
        /\ ~run.login
        /\ bootPc \in {"mount", "mounted"}

\* C19: when the request of a DocumentAPI method or of ChatAPI.callInference
\* fails (transport error or non-2xx response), the method fails with that
\* very error, not swallowed, replaced or wrapped, and after no more than the
\* one request.
ApiMethodRethrowsSameError ==
    (call.op \in DocumentMethods \cup ChatMethods /\ ret.done
        /\ ret.value.response = "err") =>
        /\ ret.value.result.threw
        /\ ret.value.result.value = AxiosError(call.args[1], "err")
        /\ ret.value.requests = 1

DocumentMethodFailed ==
    /\ call.op = "deleteDocument"
    /\ ret.done
    /\ ret.value.response = "err"
    /\ ret.value.result.threw

\* The callInference call on slot k ends in its catch block.
InferenceFails(k) == inf[k].pc = "request" /\ inf'[k].pc = "idle"

\* The assistant messages that the call for prompt n has appended.
OwnMessages(history, n) ==
    {i \in DOMAIN history :
        history[i].role = "assistant" /\ history[i].n = n /\ ~history[i].skipAPI}

\* C20: every callInference call eventually finishes with isLoading = false,
\* whether its request succeeds or fails; when the request fails the
\* assistant message that this call created is marked hasError = true, and
\* no second request is issued.
CallInferenceRecordsFailure ==
    /\ \A k \in ReqIds :
           (inf[k].pc # "idle") ~> (inf[k].pc = "idle" /\ ~isLoading)
    /\ [][\A k \in ReqIds :
             InferenceFails(k) =>
                 \A i \in OwnMessages(chatHistory', inf[k].n) :
                     chatHistory'[i].hasError]_vars
    /\ [](\A k \in ReqIds : req[k].sends <= 1)

----------------------------------------------------------------------------
\* Claims about the upload targets and the claims of the token.

\* C21: a malformed token (fewer than two parts, a second part that is not
\* base64, or a payload that is not JSON) makes decodeJwtClaims return null
\* without throwing; with null claims the upload target options stay exactly
\* [my_tenant] and the chat's available scopes are exactly [shared_global].
MalformedClaimsGrantNothing ==
    /\ \A token \in MalformedTokens :
           decodeJwtClaims(token) = [threw |-> FALSE, value |-> JNull]
    /\ scopeOptions(NullClaims) = <<SharedGlobal>>
    /\ (upload.pc \in {"mounted", "failed"} /\ upload.token \in MalformedTokens) =>
           /\ upload.pc = "mounted"
           /\ upload.decoded = [threw |-> FALSE, value |-> JNull]
           /\ upload.options = <<MyTenant>>

\* The container has mounted with the flag on and a token whose payload is
\* not JSON.
MalformedTokenMounted ==
    /\ upload.pc = "mounted"
    /\ uploadSharingFlag
    /\ upload.token = TokenWith(Seg_text)
    /\ upload.options = <<MyTenant>>

\* C22: with the upload-sharing-target flag disabled resolveTargetSpaceId
\* returns undefined whatever selectedTargetSpaceId holds and whatever options
\* the claims would give, and every file, Confluence and sitemap upload is
\* started without a target space.
DisabledFlagNoTarget ==
    ~uploadSharingFlag =>
        /\ \A id \in UploadTargetIds : \A options \in UploadOptionLists :
               resolveTargetSpaceIdOf([upload EXCEPT !.selected = id,
                                                    !.options = options]) = Undefined
        /\ upload.options = <<MyTenant>>
        /\ upload.last.target = Undefined

\* A sitemap upload was started on a mounted container with the flag off.
SitemapUploadFlagOff ==
    /\ ~uploadSharingFlag
    /\ upload.pc = "mounted"
    /\ upload.token = TokenWith(Seg_both)
    /\ upload.last = [kind |-> "sitemap", target |-> Undefined]

\* JavaScript truthiness of a JSON scalar or missing property.
JsTruthy(value) ==
    CASE value.t = "bool" -> value.b
      [] value.t = "num" -> value.n # 0
      [] value.t = "str" -> value.s # <<>>
      [] OTHER -> FALSE

\* A target is undefined or an option other than my_tenant.
PermittedTarget(target) ==
    target = Undefined \/ target \in (Ids(upload.options) \ {MyTenant})

\* C28: the upload target is never one the claims do not permit: what
\* resolveTargetSpaceId returns is undefined or an option other than
\* my_tenant; a shared_<domain> option exists only if can_write_shared_domain
\* is truthy and the domain is in allowed_domain_ids; the shared_global option
\* exists only if can_write_global is truthy; my_tenant is the first option.
UploadTargetPermitted ==
    LET c == upload.decoded.value
    IN /\ upload.options[1] = MyTenant
       /\ PermittedTarget(resolveTargetSpaceId)
       /\ PermittedTarget(upload.last.target)
       /\ \A d \in {<<"x">>, <<"y">>} :
              sharedScope(d) \in Ids(upload.options) =>
                  /\ JsTruthy(c.can_write_shared_domain)
                  /\ d \in Ids(toStringList(c.allowed_domain_ids))
       /\ SharedGlobal \in Ids(upload.options) => JsTruthy(c.can_write_global)

----------------------------------------------------------------------------
\* Claims about the base URL.

----------------------------------------------------------------------------
\* Claims about the placeholder injector.

\* The VITE_ lines whose key the text starts with.
keysAt(text, lines) ==
    {i \in DOMAIN lines : startsWith(text, lineKey(lines[i]))}

RECURSIVE replaceOwn(_, _)
\* The text with every placeholder replaced by the value of its own key:
\* where several keys match, the placeholder is the longest.
replaceOwn(text, lines) ==
    IF text = <<>> THEN <<>>
    ELSE IF keysAt(text, lines) # {}
    THEN LET i == CHOOSE i \in keysAt(text, lines) :
                      \A j \in keysAt(text, lines) :
                          Len(lineKey(lines[j])) <= Len(lineKey(lines[i]))
         IN lineValue(lines[i])
                \o replaceOwn(SubSeq(text, Len(lineKey(lines[i])) + 1, Len(text)), lines)
    ELSE <<Head(text)>> \o replaceOwn(Tail(text), lines)

\* C24: after env.sh has run, every occurrence of the key of every VITE_
\* variable in every .js and .css file of the target directory has been
\* replaced by exactly the variable's value, also for values with '|',
\* backslashes, ampersands, spaces or '='; other files are untouched.
InjectionReplacesEveryKey ==
    (call.op = "env.sh" /\ call.args.runs = 1) =>
        \A name \in DOMAIN call.args.built :
            ret.value[name] =
                IF isStaticFile(name)
                THEN replaceOwn(call.args.built[name], grepVite(call.args.environment))
                ELSE call.args.built[name]

\* C25: a second run of env.sh with the same environment leaves every static
\* file and config.js as the first run left them.
InjectionIdempotent ==
    (call.op = "env.sh" /\ call.args.runs = 2) => ret.value = call.args.dir

\* The environments with the same variables in another order.
Reordered(environment) ==
    {e \in Environments : Ids(e) = Ids(environment)}

\* C29: the files env.sh has rewritten are the same whatever the order in
\* which the variables are processed, also when one key is a prefix of
\* another or a value contains a key name.
InjectionOrderIndependent ==
    (call.op = "env.sh" /\ call.args.runs = 1) =>
        \A e \in Reordered(call.args.environment) :
            \A name \in DOMAIN call.args.built :
                envsh(e, call.args.built)[name] = ret.value[name]

----------------------------------------------------------------------------
\* Claims about overlapping calls of the chat store.

\* logout has returned and no updateAvailableScopes call is pending.
RefreshesSettled ==
    logoutPc = "done" /\ \A u \in UpdIds : upd[u].pc = "idle"

\* C26: a scope refresh started before logout cannot undo the logout: once
\* logout and every pending updateAvailableScopes call have finished,
\* availableScopes is exactly [shared_global], isAuthenticated is false and
\* selectedScopeIds is empty.
RefreshCannotUndoLogout ==
    [][(RefreshesSettled' /\ ~RefreshesSettled)
           => /\ availableScopes' = <<SharedGlobal>>
              /\ ~isAuthenticated'
              /\ selectedScopeIds' = <<>>]_vars

\* The callInference call on slot k runs its last continuation: the answer has
\* been rendered or the request has failed.
InferenceEnds(k) == inf[k].pc \in {"request", "render"} /\ inf'[k].pc = "idle"

\* C27: each chat response lands on its own placeholder, also when a second
\* callInference starts before the first response arrives: a message changes
\* only when a call ends and is then the assistant message that call created,
\* and the answer to prompt n is written to the assistant message of prompt n.
ResponseLandsOnOwnPlaceholder ==
    [][/\ \A i \in DOMAIN chatHistory :
             chatHistory'[i] # chatHistory[i] =>
                 \E k \in ReqIds :
                     InferenceEnds(k) /\ i \in OwnMessages(chatHistory, inf[k].n)
       /\ \A k \in ReqIds :
             (inf[k].pc = "render" /\ inf'[k].pc = "idle") =>
                 \A i \in OwnMessages(chatHistory', inf[k].n) :
                     chatHistory'[i].text = inf[k].n]_vars

----------------------------------------------------------------------------
\* Claims about loadSitemap.

\* A text with at least one character that is not white space.
NonBlank(text) == \E i \in DOMAIN text : text[i] \notin {" ", "\n"}

\* The keys the payload of a valid configuration is to hold, in order.
ExpectedKeys(config) ==
    <<"web_path">>
        \o (IF config.parser \in allowedParsers THEN <<"sitemap_parser">> ELSE <<>>)
        \o (IF config.continueOnFailure # JNone THEN <<"continue_on_failure">> ELSE <<>>)
        \o (IF \E line \in Ids(splitOn(config.filterUrls, "\n")) : NonBlank(line)
            THEN <<"filter_urls">> ELSE <<>>)
        \o (IF NonBlank(config.headerTemplate) THEN <<"header_template">> ELSE <<>>)

\* C30: loadSitemap validates before sending: with a parser that is given and
\* is not docusaurus, astro or generic, or a non-blank header template that
\* is not valid JSON, the call fails with an error and no request is issued;
\* otherwise exactly one POST /upload_source with source_type=sitemap is
\* issued, whose payload starts with web_path and holds sitemap_parser,
\* continue_on_failure, filter_urls and header_template only when provided.
LoadSitemapValidatesFirst ==
    call.op = "loadSitemap" =>
        LET i == call.args[1]
            config == call.args[2]
            posts == call.args[3]
            invalid ==
                \/ config.parser \notin {Undefined, <<>>} \cup allowedParsers
                \/ /\ NonBlank(config.headerTemplate)
                   /\ config.headerTemplate \notin {Pay_empty, Pay_number}
        IN IF invalid
           THEN /\ ret.done
                /\ ret.value.result.threw
                /\ ret.value.requests = 0
                /\ posts = <<>>
                /\ \A j \in ReqIds : req[j].pc = "idle" /\ req[j].sends = 0
           ELSE /\ Len(posts) = 1
                /\ posts[1].url = "/upload_source"
                /\ posts[1].params.source_type = "sitemap"
                /\ [k \in DOMAIN posts[1].data |-> posts[1].data[k].key]
                       = ExpectedKeys(config)
                /\ posts[1].data[1].value = config.webPath
                /\ req[i].sends <= 1
                /\ ret.done => ret.value.requests = 1

\* loadSitemap was called with a header template that is not JSON: it threw
\* and nothing was sent.
SitemapHeaderRejected ==
    /\ call.op = "loadSitemap"
    /\ call.args[2].headerTemplate = Pay_text
    /\ call.args[2].parser = S_astro
    /\ ret.done
    /\ ret.value.result.threw
    /\ ret.value.requests = 0
====
